---- MODULE Spec2Model ----
(***************************************************************************)
(* Verification model of the AIStore storage-target core:                  *)
(*   - the EC Put xaction and its request/control channels (package ec),   *)
(*   - the per-target EC coordinator (ais/ecmanager.go),                   *)
(*   - the mountpath manager (package fs),                                 *)
(*   - the n-way mirror copy (package mirror).                             *)
(* Each subsystem has its own specification (SpecEC, SpecMgr, SpecMfs,     *)
(* SpecMirror); the variables of the other subsystems stay at their        *)
(* initial values.                                                         *)
(***************************************************************************)
EXTENDS Integers, Sequences, FiniteSets, TLC

VARIABLES
    \* ---- EC Put xaction of one bucket (SpecEC)
    xacts,      \* sequence of the XactPut instances created so far for the bucket
    put,        \* BckXacts.put: index into xacts, 0 = nil
    reqs,       \* per request: position of its submitter and its fate
    ctl,        \* the coordinator's enableBck/disableBck caller
    clock,      \* logical time.Now(), advanced at every end-time store
    \* ---- the EC coordinator, ais/ecmanager.go (SpecMgr)
    smapOwner,  \* t.smapowner: the current cluster map [Version, Tcnt]
    smapHist,   \* history: smapHist[v] is the target count of map version v
    smapCh,     \* newSmapVersionChannel: [q: versions in flight, closed]
    mgr,        \* ecManager: [smapVersion, targetCnt, listening, now]
    bx,         \* ecManager.xacts: bucket -> BckXacts [put, get, req]
    enc,        \* the last EncodeObject call: its LOM before/after and result
    \* ---- the mountpath manager, package fs (SpecMfs)
    available,  \* MountedFS.available: the published map Path -> MountpathInfo
    disabled,   \* MountedFS.disabled: the published map of disabled mountpaths
    fsIDs,      \* MountedFS.fsIDs: fsid -> mountpath as it was given to Add
    checkFsID,  \* MountedFS.checkFsID
    xattrMpath, \* MountedFS.xattrMpath: the cached choice, or Nil
    iostats,    \* the paths registered with MountedFS.Iostats
    mfsMu,      \* MountedFS.mu: Nil when free, else the holder's pending stores
    mfsRet,     \* the return value of the last Add/Remove/Enable/Disable call
    rd,         \* a reader inside Get(): its position and the maps it loaded
    \* ---- the mirror of one object, package mirror (SpecMirror)
    mirMpaths,  \* the registered mountpaths, each with its mirror jogger
    dutil,      \* Iostats: mountpath -> current disk utilization
    disk,       \* the files: FQN -> the LOM extended attribute of the file
    lom,        \* the primary LOM in memory: [FQN, ParsedMpath, copyFQN]
    lomCache,   \* the cached primary LOM
    mir,        \* the last findLeastUtilized or copyTo call
    \* ---- one demand xaction under Abort, Renew and idle ticks (SpecXact, SpecDemand)
    ab,         \* the callers of Abort(): position, xaction, outcome of the CAS
    tmo,        \* history of Timeout(): per xaction, whether Renew was called
                \* since the previous call, and the previous call itself
    dem,        \* a bare XactDemandBase: [renew, pending]
    \* ---- a caller of MountedFS.MpathForXattr (SpecMfsXattr)
    xm,         \* its position, the mountpath it chose or returned, its calls
    \* ---- the target and its fsprungroup, package ais (SpecGroup)
    tgt,        \* the target: whether it is registered in the cluster
    grp,        \* the callers of add/remove/enable/disableMountpath
    \* ---- the pending-writer registry of an EC xaction, ec/xaction.go (SpecRemote)
    slices,     \* dOwner.slices: uname -> the registered slice record
    rr,         \* the callers of readRemote: position, uname, what was returned
    sw,         \* the slice record each caller of readRemote creates
    rsp,        \* the response to each request: in flight, or inside writerReceive
    \* ---- one object file and its LOM, package cluster (SpecLom)
    pl,         \* the LOM in memory: checksum, version, copy-FQN list
    xa,         \* the extended attribute of the file: its bytes, and (history)
                \* the record persisted last and whether the bytes were altered
    lc,         \* the LOM cache entry of the object, or Nil
    ld,         \* the last load into a fresh LOM: error and record
    \* ---- the global config owner, package cmn (SpecConfig)
    gco,        \* GCO: mtx (its holder or 0), c (the Config the pointer refers
                \* to), confFile (the Config saved last) and (history) the
                \* Configs stored so far and the number of SetConfigMany calls
    scm,        \* each caller of SetConfigMany: where it is, its clone, the
                \* pairs left to apply, its validators, and (history) the
                \* Config it cloned
    got         \* what the last Get() returned

ecVars == <<xacts, put, reqs, ctl, clock>>
mgrVars == <<smapOwner, smapHist, smapCh, mgr, bx, enc>>

mfsVars == <<available, disabled, fsIDs, checkFsID, xattrMpath, iostats, mfsMu, mfsRet, rd>>

mirVars == <<mirMpaths, dutil, disk, lom, lomCache, mir>>

xactVars == <<ab, tmo, dem>>

xattrVars == <<xm>>

grpVars == <<tgt, grp>>

remVars == <<slices, rr, sw, rsp>>

lomVars == <<pl, xa, lc, ld>>

cfgVars == <<gco, scm, got>>

vars == <<ecVars, mgrVars, mfsVars, mirVars, xactVars, xattrVars, grpVars, remVars, lomVars, cfgVars>>
notEC == <<mgrVars, mfsVars, mirVars, xactVars, xattrVars, grpVars, remVars, lomVars, cfgVars>>
notMgr == <<ecVars, mfsVars, mirVars, xactVars, xattrVars, grpVars, remVars, lomVars, cfgVars>>
notMfs == <<ecVars, mgrVars, mirVars, xactVars, xattrVars, grpVars, remVars, lomVars, cfgVars>>
notMirror == <<ecVars, mgrVars, mfsVars, xactVars, xattrVars, grpVars, remVars, lomVars, cfgVars>>
notXact == <<mgrVars, mfsVars, mirVars, xattrVars, grpVars, remVars, lomVars, cfgVars>>
notXattr == <<ecVars, mgrVars, mirVars, xactVars, grpVars, remVars, lomVars, cfgVars>>
notGrp == <<ecVars, mgrVars, mirVars, xactVars, xattrVars, remVars, lomVars, cfgVars>>
notRemote == <<ecVars, mgrVars, mfsVars, mirVars, xactVars, xattrVars, grpVars, lomVars, cfgVars>>
notLom == <<ecVars, mgrVars, mfsVars, mirVars, xactVars, xattrVars, grpVars, remVars, cfgVars>>
notCfg == <<ecVars, mgrVars, mfsVars, mirVars, xactVars, xattrVars, grpVars, remVars, lomVars>>

\* ------------------------------------------------------------------ bounds

MaxXacts == 2   \* XactPut instances renewPutEC may create
MaxReqs  == 2   \* EC requests submitted
MaxCtl   == 2   \* enableBck/disableBck calls
MaxXattrCalls == 2   \* calls of MpathForXattr
MaxReaders == 2   \* concurrent callers of readRemote, one call each
MaxPersists == 2  \* Persist() calls on the object
MaxSetters == 2   \* concurrent callers of SetConfigMany
MaxSetCalls == 3  \* SetConfigMany calls in all

\* ------------------------------------------------------- program constants

requestBufSizeGlobal == 140   \* capacity of ecCh
controlChCap         == 8     \* capacity of controlCh

ActClearRequests  == "ActClearRequests"
ActEnableRequests == "ActEnableRequests"

Reqs == 1..MaxReqs
XIds == 1..MaxXacts

(***************************************************************************)
(* cmn.XactBase / cmn.XactDemandBase                                       *)
(***************************************************************************)

\* XactBase.Finished: eutime != 0
Finished(x) == x.eutime # 0

\* faulty variant: the pending counter is not consulted
TimeoutIgnoresPending(x) == <<x.renew - 1 < 0, [x EXCEPT !.renew = x.renew - 1]>>

\* faulty variant: a renewed xaction times out at once
TimeoutAtZero(x) ==
    IF x.pending > 0
    THEN <<FALSE, x>>
    ELSE <<x.renew - 1 <= 0, [x EXCEPT !.renew = x.renew - 1]>>

\* XactDemandBase.Timeout: pending > 0 => false, else renew.Dec() < 0.
\* Returns the pair <<result, xaction after the call>>.
Timeout(x) ==
    IF x.pending > 0
    THEN <<FALSE, x>>
    ELSE <<x.renew - 1 < 0, [x EXCEPT !.renew = x.renew - 1]>>

(***************************************************************************)
(* ec.XactPut                                                              *)
(***************************************************************************)

\* NewPutXact + newXactReqECBase + NewXactDemandBase: a running xaction with
\* empty channels, reject flag false, end-time 0 and one jogger for every
\* available and every disabled mountpath of fs.Mountpaths.Get().
\* nctl, atCall, atProc, clearSeq are history fields, not program state:
\*   nctl     control messages ever sent to this xaction
\*   atCall   requests that were in ecCh when ClearRequests was called
\*   atProc   requests that were in ecCh when the loop took the clear message
\*   clearSeq sequence number of the clear message the loop processed (0: none)
NewPutXact ==
    [ pc            |-> "run",      \* position of Run: run | drain | done
      rejectReq     |-> FALSE,
      ecCh          |-> <<>>,
      controlCh     |-> <<>>,
      workCh        |-> <<>>,       \* the joggers' work channels
      mpathReqCh    |-> <<>>,
      putJoggers    |-> DOMAIN available \cup DOMAIN disabled,  \* the keys of the map
      eutime        |-> 0,
      aborted       |-> FALSE,
      abrtClosed    |-> 0,          \* number of close(xact.abrt) executed
      renew         |-> 0,
      pending       |-> 0,
      tickerStopped |-> FALSE,
      jogStopped    |-> FALSE,
      retErr        |-> "",         \* what Run returned
      nctl          |-> 0,
      ctlDone       |-> 0,
      atCall        |-> {},
      atProc        |-> {},
      clearSeq      |-> 0 ]

\* faulty variant: the reject flag is not consulted
ecRequestsEnabledAlways(x) == TRUE

\* xactReqBase.ecRequestsEnabled
ecRequestsEnabled(x) == ~x.rejectReq

\* XactPut.stop: nothing when already finished; else stop the ticker and
\* every jogger and store the end-time.
stop(x, now) ==
    IF Finished(x)
    THEN x
    ELSE [x EXCEPT !.tickerStopped = TRUE, !.jogStopped = TRUE, !.eutime = now]

\* faulty variant: the request is dropped without an error on its error channel
abortECRequestSilently(rq, fate) == [rq EXCEPT !.pc = fate]

\* XactPut.abortECRequestWhenDisabled: the "EC disabled" error goes to the
\* request's error channel when it has one.
abortECRequestWhenDisabled(rq, fate) ==
    [rq EXCEPT !.pc = fate,
               !.err = IF rq.hasErrCh THEN "ECdisabled" ELSE rq.err]

\* faulty variant: the receive yields the newest message
RecvControlNewest(ch) == ch[Len(ch)]

\* the message a receive on controlCh yields
RecvControl(ch) == Head(ch)

\* renewPutEC (called by restoreBckPutXact when the xaction is nil or
\* finished): a new XactPut whose Run is started.
RestoredXacts == IF put = 0 \/ Finished(xacts[put]) THEN Append(xacts, NewPutXact) ELSE xacts

\* ecManager.restoreBckPutXact: the index of the xaction it returns
RestoredPut == IF put = 0 \/ Finished(xacts[put]) THEN Len(xacts) + 1 ELSE put

CanRestore == ~(put = 0 \/ Finished(xacts[put])) \/ Len(xacts) < MaxXacts

\* ---- submitters: mgr.restoreBckPutXact(bucket).Encode(req) / .Cleanup(req)

\* ecManager.EncodeObject line 280 / CleanupObject line 296, first half:
\* restoreBckPutXact. The request's LOM is on a mountpath that is available.
SubmitRestore(r) ==
    /\ reqs[r].pc = "new"
    /\ CanRestore
    /\ xacts' = RestoredXacts
    /\ put' = RestoredPut
    /\ \E mpath \in DOMAIN available :
         reqs' = [reqs EXCEPT ![r].pc = "encode", ![r].x = RestoredPut,
                              ![r].sub = Len(ctl.hist), ![r].mpath = mpath]
    /\ UNCHANGED <<ctl, clock>>
    /\ UNCHANGED notEC

\* XactPut.dispatchDecodingRequest, the flag check
SubmitCheck(r) ==
    /\ reqs[r].pc = "encode"
    /\ IF ~ecRequestsEnabled(xacts[reqs[r].x])
       THEN reqs' = [reqs EXCEPT ![r] =
                       [abortECRequestWhenDisabled(reqs[r], "rejected")
                           EXCEPT !.rej = Len(ctl.hist)]]
       ELSE reqs' = [reqs EXCEPT ![r].pc = "send"]
    /\ UNCHANGED <<xacts, put, ctl, clock>>
    /\ UNCHANGED notEC

\* XactPut.dispatchDecodingRequest, r.ecCh <- req
SubmitSend(r) ==
    LET x == reqs[r].x IN
    /\ reqs[r].pc = "send"
    /\ Len(xacts[x].ecCh) < requestBufSizeGlobal
    /\ xacts' = [xacts EXCEPT ![x].ecCh = Append(@, r)]
    /\ reqs' = [reqs EXCEPT ![r].pc = "queued", ![r].enq = xacts[x].nctl]
    /\ UNCHANGED <<put, ctl, clock>>
    /\ UNCHANGED notEC

\* ---- the bucket metadata of the bucket, and BucketsMDChanged

MaxBmdVer == 3    \* versions of the bucket metadata after the first
MaxMdCalls == 4   \* calls of BucketsMDChanged

\* the bucket metadata after the control messages of sent: version 1 has
\* EC enabled for the bucket, every version that led to a message toggled it
BmdAfter(sent) == [Version |-> Len(sent) + 1, Enabled |-> Len(sent) % 2 = 0]

\* the owner of the bucket metadata gets a new version
BmdPut(enabled) ==
    /\ ctl.bmd.Version <= MaxBmdVer
    /\ ctl' = [ctl EXCEPT !.bmd = [Version |-> @.Version + 1, Enabled |-> enabled]]
    /\ UNCHANGED <<xacts, put, reqs, clock>>
    /\ UNCHANGED notEC

\* faulty variant: every version is taken to be newer
NotNewerNever(newBckMD, bckMD) == FALSE

\* BucketsMDChanged: newBckMD.Version <= mgr.bckMD.Version
NotNewer(newBckMD, bckMD) == newBckMD.Version <= bckMD.Version

\* faulty variant: a bucket that has EC enabled is enabled on every version
BckChangeEnables(oldBck, newBck) ==
    IF newBck.Enabled THEN ActEnableRequests
    ELSE IF oldBck.Enabled /\ ~newBck.Enabled THEN ActClearRequests
    ELSE "idle"

\* BucketsMDChanged, the loop body for a bucket that existed: enableBck,
\* disableBck or nothing
BckChange(oldBck, newBck) ==
    IF ~oldBck.Enabled /\ newBck.Enabled THEN ActEnableRequests
    ELSE IF oldBck.Enabled /\ ~newBck.Enabled THEN ActClearRequests
    ELSE "idle"

\* ecManager.BucketsMDChanged up to restoreBckPutXact of enableBck or
\* disableBck; the control message is sent by the next step (CtlSend)
BucketsMDChanged ==
    LET newBckMD == ctl.bmd
        oldBckMD == ctl.bckMD
        act == BckChange(oldBckMD, newBckMD)
    IN
    /\ ctl.pc = "idle"
    /\ ctl.nmd < MaxMdCalls
    /\ IF NotNewer(newBckMD, ctl.bckMD)
       THEN /\ ctl' = [ctl EXCEPT !.nmd = @ + 1]
            /\ UNCHANGED <<xacts, put>>
       ELSE IF act = "idle"
       THEN /\ ctl' = [ctl EXCEPT !.nmd = @ + 1, !.bckMD = newBckMD,
                                  !.seen = Append(@, newBckMD.Enabled)]
            /\ UNCHANGED <<xacts, put>>
       ELSE /\ CanRestore
            /\ xacts' = RestoredXacts
            /\ put' = RestoredPut
            /\ ctl' = [ctl EXCEPT !.nmd = @ + 1, !.bckMD = newBckMD,
                                  !.seen = Append(@, newBckMD.Enabled),
                                  !.pc = act, !.x = RestoredPut]
    /\ UNCHANGED <<reqs, clock>>
    /\ UNCHANGED notEC

\* ---- the coordinator: disableBck / enableBck (Put xaction part)

\* ecManager.disableBck / enableBck: restoreBckPutXact(bckName)
CtlRestore(act) ==
    /\ ctl.pc = "idle"
    /\ Len(ctl.hist) < MaxCtl
    /\ act = IF ctl.enabled THEN ActClearRequests ELSE ActEnableRequests
    /\ CanRestore
    /\ xacts' = RestoredXacts
    /\ put' = RestoredPut
    /\ ctl' = [ctl EXCEPT !.pc = act, !.x = RestoredPut]
    /\ UNCHANGED <<reqs, clock>>
    /\ UNCHANGED notEC

\* xactReqBase.ClearRequests / EnableRequests: r.controlCh <- msg
CtlSend ==
    LET x == ctl.x IN
    /\ ctl.pc # "idle"
    /\ Len(xacts[x].controlCh) < controlChCap
    /\ xacts' = [xacts EXCEPT
                   ![x].controlCh = Append(@, [Action |-> ctl.pc, seq |-> xacts[x].nctl + 1]),
                   ![x].nctl = @ + 1,
                   ![x].atCall = IF ctl.pc = ActClearRequests
                                 THEN @ \cup {xacts[x].ecCh[i] : i \in 1..Len(xacts[x].ecCh)}
                                 ELSE @]
    /\ ctl' = [ctl EXCEPT !.pc = "idle", !.hist = Append(@, ctl.pc),
                          !.enabled = (ctl.pc = ActEnableRequests)]
    /\ UNCHANGED <<put, reqs, clock>>
    /\ UNCHANGED notEC

\* ---- XactPut.Run, one select case per action

\* XactPut.dispatchRequest; pc "panic": cmn.AssertMsg failed
dispatchRequest(x, r) ==
    IF ~ecRequestsEnabled(xacts[x])
    THEN /\ xacts' = [xacts EXCEPT ![x].ecCh = Tail(@)]
         /\ reqs' = [reqs EXCEPT ![r].pc = "refused",
                       ![r].err = IF reqs[r].hasErrCh THEN "beingDisabled" ELSE @,
                       ![r].hnd = xacts[x].ctlDone]
    ELSE IF reqs[r].mpath \notin xacts[x].putJoggers
    THEN /\ xacts' = [xacts EXCEPT ![x].ecCh = Tail(@),
                                   ![x].pending = @ + 1,
                                   ![x].pc = "panic"]
         /\ reqs' = [reqs EXCEPT ![r].pc = "lost", ![r].hnd = xacts[x].ctlDone]
    ELSE /\ xacts' = [xacts EXCEPT ![x].ecCh = Tail(@),
                                   ![x].pending = @ + 1,
                                   ![x].workCh = Append(@, r)]
         /\ reqs' = [reqs EXCEPT ![r].pc = "jogger", ![r].hnd = xacts[x].ctlDone]

\* case req := <-r.ecCh
RunRequest(x) ==
    /\ x <= Len(xacts)
    /\ xacts[x].pc = "run"
    /\ xacts[x].ecCh # <<>>
    /\ dispatchRequest(x, Head(xacts[x].ecCh))
    /\ UNCHANGED <<put, ctl, clock>>
    /\ UNCHANGED notEC

\* case <-r.ChanCheckTimeout(): idleEnds.Before(time.Now()) && r.Timeout()
IdleTick(x, elapsed) ==
    /\ x <= Len(xacts)
    /\ xacts[x].pc = "run"
    /\ ~xacts[x].tickerStopped
    /\ elapsed
    /\ LET t == Timeout(xacts[x]) IN
         IF t[1]
         THEN /\ xacts' = [xacts EXCEPT ![x] = [stop(t[2], clock) EXCEPT !.pc = "done"]]
              /\ clock' = clock + 1
         ELSE /\ xacts' = [xacts EXCEPT ![x] = t[2]]
              /\ clock' = clock
    /\ UNCHANGED <<put, reqs, ctl>>

RunIdleTick(x, elapsed) ==
    /\ IdleTick(x, elapsed)
    /\ UNCHANGED notEC

\* case msg := <-r.controlCh
RunControl(x) ==
    /\ x <= Len(xacts)
    /\ xacts[x].pc = "run"
    /\ xacts[x].controlCh # <<>>
    /\ LET msg  == RecvControl(xacts[x].controlCh)
           rest == SelectSeq(xacts[x].controlCh, LAMBDA m : m # msg)
       IN IF msg.Action = ActEnableRequests
          THEN xacts' = [xacts EXCEPT ![x].controlCh = rest,
                                      ![x].ctlDone = @ + 1,
                                      ![x].rejectReq = FALSE]
          ELSE xacts' = [xacts EXCEPT ![x].controlCh = rest,
                                      ![x].ctlDone = @ + 1,
                                      ![x].rejectReq = TRUE,
                                      ![x].pc = "drain",
                                      ![x].clearSeq = msg.seq,
                                      ![x].atProc = {xacts[x].ecCh[i] : i \in 1..Len(xacts[x].ecCh)}]
    /\ UNCHANGED <<put, reqs, ctl, clock>>
    /\ UNCHANGED notEC

\* XactPut.addMpath: the keys of putJoggers after it
addMpath(joggers, mpath) == joggers \cup {mpath}

\* XactPut.removeMpath; pc "panic": cmn.AssertMsg failed
removeMpath(x, mpath) ==
    IF mpath \notin x.putJoggers
    THEN [x EXCEPT !.mpathReqCh = Tail(@), !.pc = "panic"]
    ELSE [x EXCEPT !.mpathReqCh = Tail(@), !.putJoggers = @ \ {mpath}]

\* case mpathRequest := <-r.mpathReqCh
RunMpath(x) ==
    /\ x <= Len(xacts)
    /\ xacts[x].pc = "run"
    /\ xacts[x].mpathReqCh # <<>>
    /\ LET req == Head(xacts[x].mpathReqCh) IN
         xacts' = [xacts EXCEPT ![x] =
                     IF req.action = "add"
                     THEN [xacts[x] EXCEPT !.mpathReqCh = Tail(@),
                                           !.putJoggers = addMpath(@, req.mpath)]
                     ELSE removeMpath(xacts[x], req.mpath)]
    /\ UNCHANGED <<put, reqs, ctl, clock>>
    /\ UNCHANGED notEC

\* the drain loop, case req := <-r.ecCh
DrainRequest(x) ==
    /\ x <= Len(xacts)
    /\ xacts[x].pc = "drain"
    /\ xacts[x].ecCh # <<>>
    /\ LET r == Head(xacts[x].ecCh) IN
         /\ xacts' = [xacts EXCEPT ![x].ecCh = Tail(@)]
         /\ reqs' = [reqs EXCEPT ![r] =
                       [abortECRequestWhenDisabled(reqs[r], "drained")
                           EXCEPT !.hnd = xacts[x].ctlDone]]
    /\ UNCHANGED <<put, ctl, clock>>
    /\ UNCHANGED notEC

\* the drain loop, default: r.stop(); return nil
DrainDone(x) ==
    /\ x <= Len(xacts)
    /\ xacts[x].pc = "drain"
    /\ xacts[x].ecCh = <<>>
    /\ xacts' = [xacts EXCEPT ![x] = [stop(xacts[x], clock) EXCEPT !.pc = "done"]]
    /\ clock' = clock + 1
    /\ UNCHANGED <<put, reqs, ctl>>
    /\ UNCHANGED notEC

\* putJogger.run of the jogger of a mountpath: take a request from its work
\* channel, encode or clean up, DecPending
JoggerRun(x) ==
    /\ x <= Len(xacts)
    /\ ~xacts[x].jogStopped
    /\ \E mpath \in xacts[x].putJoggers :
         LET own == SelectSeq(xacts[x].workCh, LAMBDA r : reqs[r].mpath = mpath) IN
         /\ own # <<>>
         /\ xacts' = [xacts EXCEPT ![x].workCh = SelectSeq(@, LAMBDA r : r # Head(own)),
                                   ![x].pending = @ - 1]
         /\ reqs' = [reqs EXCEPT ![Head(own)].pc = "encoded"]
    /\ UNCHANGED <<put, ctl, clock>>
    /\ UNCHANGED notEC

(***************************************************************************)
(* ais.ecManager                                                           *)
(***************************************************************************)

MaxTargets == 4   \* targets in a cluster map
MaxSmapVer == 3   \* cluster-map versions
MaxCalls   == 1   \* requests queued on one xaction by EncodeObject/RestoreObject

Nil == [pc |-> "nil"]

Buckets == {"b1", "b2"}

\* mgr.bckMD.LBmap: the EC configuration of every local bucket
LBmap ==
    [b \in Buckets |->
        IF b = "b1"
        THEN [Enabled |-> TRUE,  DataSlices |-> 1, ParitySlices |-> 1, ObjSizeLimit |-> 2]
        ELSE [Enabled |-> FALSE, DataSlices |-> 2, ParitySlices |-> 1, ObjSizeLimit |-> 2]]

\* object sizes, one below and one above the buckets' ObjSizeLimit
ObjSizes == {1, 3}

\* ECConf.RequiredEncodeTargets: data + parity slices and the target itself
RequiredEncodeTargets(c) == c.DataSlices + c.ParitySlices + 1

\* ECConf.RequiredRestoreTargets
RequiredRestoreTargets(c) == c.DataSlices + 1

\* ec.IsECCopy: the object is small enough to be replicated, not split
IsECCopy(size, c) == size < c.ObjSizeLimit

\* restoreBckPutXact / restoreBckGetXact / restoreBckRespXact: the xaction
\* is renewed when it is nil or finished
NeedsRenew(x) == IF x = Nil THEN TRUE ELSE Finished(x)

restoreBckXact(x) == IF NeedsRenew(x) THEN NewPutXact ELSE x

\* XactPut.Encode -> dispatchDecodingRequest: rejected when the reject flag
\* is set, else put on the request channel
Encode(x, rq) ==
    IF ~ecRequestsEnabled(x) THEN x ELSE [x EXCEPT !.ecCh = Append(@, rq)]

\* faulty variant: the target-count check is off by one
EncodeResultOffByOne(c, size, tcnt, oos, perm, loadErr) ==
    IF ~c.Enabled THEN "ErrorECDisabled"
    ELSE IF ~IsECCopy(size, c) /\ tcnt + 1 < RequiredEncodeTargets(c) THEN "ErrorInsufficientTargets"
    ELSE IF oos THEN "OOS"
    ELSE IF ~perm THEN ""
    ELSE IF loadErr THEN "LoadError"
    ELSE "queued"

\* ecManager.EncodeObject, what the call returns; "" is nil.
\* oos: AvgCapUsed reports out-of-space; perm: the content type permits
\* processing; loadErr: lom.Load fails.
EncodeResult(c, size, tcnt, oos, perm, loadErr) ==
    IF ~c.Enabled THEN "ErrorECDisabled"
    ELSE IF ~IsECCopy(size, c) /\ tcnt < RequiredEncodeTargets(c) THEN "ErrorInsufficientTargets"
    ELSE IF oos THEN "OOS"
    ELSE IF ~perm THEN ""
    ELSE IF loadErr THEN "LoadError"
    ELSE "queued"

\* ecManager.EncodeObject
EncodeObject(b, size, oos, perm, loadErr) ==
    LET c     == LBmap[b]
        res   == EncodeResult(c, size, mgr.targetCnt, oos, perm, loadErr)
        lomIn == [Bucket |-> b, Size |-> size, loaded |-> FALSE]
        rq    == [Action |-> "ActSplit", IsCopy |-> IsECCopy(size, c), LOM |-> b]
        x     == restoreBckXact(bx[b].put)
    IN
    /\ enc.n < MaxCalls
    /\ res = "queued" => Len(x.ecCh) < requestBufSizeGlobal
    /\ bx' = IF res = "queued" THEN [bx EXCEPT ![b].put = Encode(x, rq)] ELSE bx
    /\ enc' = [n |-> enc.n + 1, lomIn |-> lomIn, res |-> IF res = "queued" THEN "" ELSE res,
               lomOut |-> [lomIn EXCEPT !.loaded = (res = "queued")]]
    /\ UNCHANGED <<smapOwner, smapHist, smapCh, mgr>>
    /\ UNCHANGED notMgr

\* ecManager.RestoreObject up to Decode: the Get xaction is renewed and the
\* request is put on its channel
RestoreObject(b) ==
    LET c == LBmap[b]
        x == restoreBckXact(bx[b].get)
    IN
    /\ c.Enabled
    /\ mgr.targetCnt >= RequiredRestoreTargets(c)
    /\ Len(x.ecCh) < MaxCalls
    /\ bx' = [bx EXCEPT ![b].get = Encode(x, [Action |-> "ActRestore", IsCopy |-> FALSE, LOM |-> b])]
    /\ UNCHANGED <<smapOwner, smapHist, smapCh, mgr, enc>>
    /\ UNCHANGED notMgr

\* makeRecvRequest: a peer's request renews the bucket's Respond xaction
RecvRequest(b) ==
    /\ NeedsRenew(bx[b].req)
    /\ bx' = [bx EXCEPT ![b].req = restoreBckXact(bx[b].req)]
    /\ UNCHANGED <<smapOwner, smapHist, smapCh, mgr, enc>>
    /\ UNCHANGED notMgr

\* smapowner.put: a new cluster map is stored and its version is sent to the
\* listeners
SmapPut(n) ==
    /\ ~smapCh.closed
    /\ smapOwner.Version < MaxSmapVer
    /\ smapOwner' = [Version |-> smapOwner.Version + 1, Tcnt |-> n]
    /\ smapHist' = Append(smapHist, n)
    /\ smapCh' = [smapCh EXCEPT !.q = Append(@, smapOwner.Version + 1)]
    /\ UNCHANGED <<mgr, bx, enc>>
    /\ UNCHANGED notMgr

\* smap listeners Unreg: the version channel is closed
SmapUnreg ==
    /\ ~smapCh.closed
    /\ smapCh' = [smapCh EXCEPT !.closed = TRUE]
    /\ UNCHANGED <<smapOwner, smapHist, mgr, bx, enc>>
    /\ UNCHANGED notMgr

\* ---- the manager's read-write mutex and its map of BckXacts

\* the goroutines that call into the manager: the listener of cluster-map
\* changes, the caller of BucketsMDChanged, and two callers of getBckXacts
\* (restoreBckPutXact and the like, from EncodeObject or disableBck)
Gors == {"listen", "bmd", "get1", "get2"}
Getters == {"get1", "get2"}

\* faulty variant: readers are admitted while a writer waits
RLockReadyUnfair(m) == m.w = "none"

\* sync.RWMutex.RLock returns: no writer holds the lock and none is waiting
RLockReady(m) == m.w = "none" /\ m.pending = {}

\* sync.RWMutex.Lock returns: no reader and no writer holds the lock
LockReady(m) == m.w = "none" /\ \A g \in Gors : m.r[g] = 0

\* the rest of mgr is left alone
MgrLockStep ==
    /\ UNCHANGED <<smapOwner, smapHist, smapCh, bx, enc>>
    /\ UNCHANGED notMgr

\* ListenSmapChanged: mgr.RLock() before the loop over mgr.bckMD.LBmap
ListenRLock ==
    /\ mgr.gor["listen"].pc = "idle"
    /\ RLockReady(mgr.mtx)
    /\ mgr' = [mgr EXCEPT !.mtx.r["listen"] = @ + 1,
                          !.gor["listen"].pc = "loop",
                          !.gor["listen"].todo = <<"b1", "b2">>]
    /\ MgrLockStep

\* ListenSmapChanged, the loop body: bckXacts := mgr.getBckXacts(bckName)
ListenGet ==
    /\ mgr.gor["listen"].pc = "loop"
    /\ mgr.gor["listen"].todo # <<>>
    /\ mgr' = [mgr EXCEPT !.gor["listen"].pc = "rlock",
                          !.gor["listen"].b = Head(mgr.gor["listen"].todo),
                          !.gor["listen"].todo = Tail(@)]
    /\ MgrLockStep

\* ListenSmapChanged: mgr.RUnlock() after the loop
ListenRUnlock ==
    /\ mgr.gor["listen"].pc = "loop"
    /\ mgr.gor["listen"].todo = <<>>
    /\ mgr' = [mgr EXCEPT !.mtx.r["listen"] = @ - 1,
                          !.gor["listen"].pc = "done"]
    /\ MgrLockStep

\* a caller of getBckXacts(b)
GetCall(g, b) ==
    /\ mgr.gor[g].pc = "idle"
    /\ mgr' = [mgr EXCEPT !.gor[g].pc = "rlock", !.gor[g].b = b]
    /\ MgrLockStep

\* getBckXacts: mgr.RLock()
getBckXactsRLock(g) ==
    /\ mgr.gor[g].pc = "rlock"
    /\ RLockReady(mgr.mtx)
    /\ mgr' = [mgr EXCEPT !.mtx.r[g] = @ + 1, !.gor[g].pc = "lookup"]
    /\ MgrLockStep

\* getBckXacts: xacts, ok := mgr.xacts[bckName]; if !ok, xacts = &ec.BckXacts{}
getBckXactsLookup(g) ==
    LET b == mgr.gor[g].b IN
    /\ mgr.gor[g].pc = "lookup"
    /\ IF b \in DOMAIN mgr.xacts
       THEN mgr' = [mgr EXCEPT !.gor[g].xs = mgr.xacts[b], !.gor[g].pc = "runlock"]
       ELSE mgr' = [mgr EXCEPT !.gor[g].xs = mgr.nrec + 1, !.nrec = @ + 1,
                               !.gor[g].pc = "store"]
    /\ MgrLockStep

\* getBckXacts: mgr.xacts[bckName] = xacts
getBckXactsStore(g) ==
    /\ mgr.gor[g].pc = "store"
    /\ mgr' = [mgr EXCEPT !.xacts = [b \in DOMAIN @ \cup {mgr.gor[g].b} |->
                                         IF b = mgr.gor[g].b THEN mgr.gor[g].xs ELSE @[b]],
                          !.gor[g].pc = "runlock"]
    /\ MgrLockStep

\* getBckXacts: the deferred mgr.RUnlock() and the return
getBckXactsReturn(g) ==
    /\ mgr.gor[g].pc = "runlock"
    /\ mgr' = [mgr EXCEPT !.mtx.r[g] = @ - 1,
                          !.gor[g].rets = @ \cup {<<mgr.gor[g].b, mgr.gor[g].xs>>},
                          !.gor[g].pc = IF g = "listen" THEN "loop" ELSE "done"]
    /\ MgrLockStep

\* BucketsMDChanged: mgr.Lock() is called and waits
MDLock ==
    /\ mgr.gor["bmd"].pc = "idle"
    /\ mgr' = [mgr EXCEPT !.mtx.pending = @ \cup {"bmd"}, !.gor["bmd"].pc = "lock"]
    /\ MgrLockStep

\* BucketsMDChanged: mgr.Lock() returns
MDLocked ==
    /\ mgr.gor["bmd"].pc = "lock"
    /\ LockReady(mgr.mtx)
    /\ mgr' = [mgr EXCEPT !.mtx.pending = @ \ {"bmd"}, !.mtx.w = "bmd",
                          !.gor["bmd"].pc = "locked"]
    /\ MgrLockStep

\* BucketsMDChanged: mgr.bckMD = newBckMD; mgr.Unlock()
MDUnlock ==
    /\ mgr.gor["bmd"].pc = "locked"
    /\ mgr' = [mgr EXCEPT !.mtx.w = "none", !.gor["bmd"].pc = "done"]
    /\ MgrLockStep

\* BckXacts.StopPut
StopPut(xs, now) ==
    IF ~NeedsRenew(xs.put) THEN [xs EXCEPT !.put = stop(xs.put, now)] ELSE xs

\* BckXacts.StopGet
StopGet(xs, now) ==
    IF ~NeedsRenew(xs.get) THEN [xs EXCEPT !.get = stop(xs.get, now)] ELSE xs

\* faulty variant: the Get xaction is stopped on the encode requirement
StopUnsatisfiedByEncode(b, xs, targetCnt, now) ==
    IF targetCnt < RequiredEncodeTargets(LBmap[b]) THEN StopGet(StopPut(xs, now), now) ELSE xs

\* ListenSmapChanged, lines 398-411: the xactions of one bucket after the
\* loop body ran for it with the new target count
StopUnsatisfied(b, xs, targetCnt, now) ==
    LET afterPut == IF targetCnt < RequiredEncodeTargets(LBmap[b]) THEN StopPut(xs, now) ELSE xs
    IN  IF targetCnt < RequiredRestoreTargets(LBmap[b]) THEN StopGet(afterPut, now) ELSE afterPut

\* ListenSmapChanged: one iteration of the receive loop on an open channel
ListenSmapChanged ==
    /\ mgr.listening
    /\ smapCh.q # <<>>
    /\ smapCh' = [smapCh EXCEPT !.q = Tail(@)]
    /\ IF Head(smapCh.q) <= mgr.smapVersion
       THEN UNCHANGED <<mgr, bx>>
       ELSE /\ mgr' = [mgr EXCEPT !.smapVersion = smapOwner.Version,
                                  !.targetCnt = smapOwner.Tcnt,
                                  !.now = @ + 1]
            /\ bx' = [b \in Buckets |-> StopUnsatisfied(b, bx[b], smapOwner.Tcnt, mgr.now)]
    /\ UNCHANGED <<smapOwner, smapHist, enc>>
    /\ UNCHANGED notMgr

\* ListenSmapChanged, the channel was closed by Unreg: end the Get and Put
\* xactions and stop listening
ListenClosed ==
    /\ mgr.listening
    /\ smapCh.q = <<>>
    /\ smapCh.closed
    /\ mgr' = [mgr EXCEPT !.listening = FALSE, !.now = @ + 1]
    /\ bx' = [b \in Buckets |-> StopPut(StopGet(bx[b], mgr.now), mgr.now)]
    /\ UNCHANGED <<smapOwner, smapHist, smapCh, enc>>
    /\ UNCHANGED notMgr

(***************************************************************************)
(* Package fs: MountedFS, the mountpath manager                            *)
(***************************************************************************)

\* A path is the sequence of its segments: "/a" is <<"a">>, and an empty
\* segment stands for a doubled or trailing separator, "/a/" is <<"a", "">>.
MpathInputs ==
    { <<"a">>, <<"a", "">>, <<"b">>, <<"c">>, <<"c", "local">>, <<"cloud", "d">>, <<"nx">> }

\* the mountpaths of the runs with a concurrent reader
GetInputs == { <<"a">>, <<"b">>, <<"c">> }

\* filepath.Clean on such paths: drop the empty segments
Clean(mpath) == SelectSeq(mpath, LAMBDA s : s # "")

\* strings.HasSuffix(mpath, separator + bucket)
HasSuffix(mpath, bucket) == Len(mpath) > 0 /\ mpath[Len(mpath)] = bucket

\* strings.Contains(mpath, separator + bucket + separator)
Contains(mpath, bucket) == \E i \in 1..(Len(mpath) - 1) : mpath[i] = bucket

\* os.Stat: the directories that exist on the target
Stat(mpath) == Clean(mpath) \in { <<"a">>, <<"b">>, <<"c">>, <<"c", "local">>, <<"cloud", "d">> }

\* syscall.Statfs: "/a" and "/b" are directories of one file system
Statfs(mpath) == IF Clean(mpath) \in { <<"a">>, <<"b">> } THEN "fsid1" ELSE "fsid2"

\* Fqn2fsAtStartup: the device behind the file system
Fqn2fsAtStartup(mpath) == IF Statfs(mpath) = "fsid1" THEN "sda" ELSE "sdb"

\* xxhash.ChecksumString64S(cleanPath, MLCG32): a different value for every
\* path, by the first letter of the path and its length
ChecksumString64S(cleanPath) ==
    LET first == CASE cleanPath[1] = "a" -> {1, 2}
                   [] cleanPath[1] = "b" -> {1, 2, 3}
                   [] cleanPath[1] = "c" -> {1}
                   [] OTHER -> {1, 2, 3, 4}
    IN  Cardinality(first) * Len(cleanPath) + Cardinality(first)

newMountpath(path, fsid, fs) ==
    [Path |-> Clean(path), OrigPath |-> path, Fsid |-> fsid, FileSystem |-> fs,
     PathDigest |-> ChecksumString64S(Clean(path))]

EmptyMap == [k \in {} |-> Nil]

\* m[k] = v on a copy of the map
MapPut(m, k, v) == [x \in DOMAIN m \cup {k} |-> IF x = k THEN v ELSE m[x]]

\* faulty variant: the delete is lost
MapDeleteNothing(m, k) == m

\* delete(m, k) on a copy of the map
MapDelete(m, k) == [x \in DOMAIN m \ {k} |-> m[x]]

\* history: a Get() in flight forgets the paths a publication unregisters
GetSees(av, dis) ==
    IF rd.pc = "available" THEN [rd EXCEPT !.reg = @ \cap (DOMAIN av \cup DOMAIN dis)] ELSE rd

\* updatePaths, first store: mfs.available.Store; the caller still holds
\* mfs.mu and has the disabled map and the xattr reset to store.
updatePaths(av, dis) ==
    /\ available' = av
    /\ mfsMu' = [pc |-> "disabled", disabled |-> dis]
    /\ rd' = GetSees(av, dis)

\* updatePaths, second store: mfs.disabled.Store
updatePathsDisabled ==
    /\ mfsMu # Nil
    /\ mfsMu.pc = "disabled"
    /\ disabled' = mfsMu.disabled
    /\ mfsMu' = [mfsMu EXCEPT !.pc = "xattrMpath"]
    /\ UNCHANGED <<available, fsIDs, checkFsID, xattrMpath, iostats, mfsRet, rd>>
    /\ UNCHANGED notMfs

\* updatePaths, third store: mfs.xattrMpath.Store(nil); the deferred Unlock
updatePathsXattr ==
    /\ mfsMu # Nil
    /\ mfsMu.pc = "xattrMpath"
    /\ xattrMpath' = Nil
    /\ mfsMu' = Nil
    /\ UNCHANGED <<available, disabled, fsIDs, checkFsID, iostats, mfsRet, rd>>
    /\ UNCHANGED notMfs

\* the part of Add before the lock: which error, if any
AddPrecheck(mpath, fsOk) ==
    IF \E bucket \in {"local", "cloud"} : HasSuffix(mpath, bucket) THEN "suffix"
    ELSE IF \E bucket \in {"local", "cloud"} : Contains(mpath, bucket) THEN "contains"
    ELSE IF ~Stat(mpath) THEN "does not exist"
    ELSE IF ~fsOk THEN "cannot statfs"
    ELSE ""

\* an Add that never consults the fsid registry
AddFsidIgnored(mp) == FALSE

\* the check of the fsid registry in Add
AddFsidTaken(mp) == mp.Fsid \in DOMAIN fsIDs /\ checkFsID

\* faulty variant: Add does not enter the fsid into the registry
AddFsIDSkipped(ids, mp, mpath) == ids

\* mfs.fsIDs[mp.Fsid] = mpath
AddFsID(ids, mp, mpath) == [x \in DOMAIN ids \cup {mp.Fsid} |-> IF x = mp.Fsid THEN mpath ELSE ids[x]]

\* MountedFS.Add up to its first store
MountpathsAdd(mpath, fsOk) ==
    LET pre == AddPrecheck(mpath, fsOk)
        mp  == newMountpath(mpath, Statfs(mpath), Fqn2fsAtStartup(mpath))
    IN
    /\ mfsMu = Nil
    /\ IF pre # "" THEN
           /\ mfsRet' = [op |-> "Add", mpath |-> mpath, err |-> pre]
           /\ UNCHANGED <<available, disabled, fsIDs, checkFsID, xattrMpath, iostats, mfsMu, rd>>
       ELSE IF mp.Path \in DOMAIN available THEN
           /\ mfsRet' = [op |-> "Add", mpath |-> mpath, err |-> "already registered"]
           /\ UNCHANGED <<available, disabled, fsIDs, checkFsID, xattrMpath, iostats, mfsMu, rd>>
       ELSE IF AddFsidTaken(mp) THEN
           /\ iostats' = iostats \cup {mp.Path}
           /\ mfsRet' = [op |-> "Add", mpath |-> mpath, err |-> "same fsid"]
           /\ UNCHANGED <<available, disabled, fsIDs, checkFsID, xattrMpath, mfsMu, rd>>
       ELSE
           /\ iostats' = iostats \cup {mp.Path}
           /\ fsIDs' = AddFsID(fsIDs, mp, mpath)
           /\ updatePaths(MapPut(available, mp.Path, mp), disabled)
           /\ mfsRet' = [op |-> "Add", mpath |-> mpath, err |-> ""]
           /\ UNCHANGED <<disabled, checkFsID, xattrMpath>>

\* a call of MountedFS.Add from outside the fsprungroup
Add(mpath, fsOk) ==
    /\ MountpathsAdd(mpath, fsOk)
    /\ UNCHANGED notMfs

\* MountedFS.Remove up to its first store
MountpathsRemove(mpath0) ==
    LET mpath == Clean(mpath0) IN
    /\ mfsMu = Nil
    /\ IF mpath \notin DOMAIN available THEN
           IF mpath \notin DOMAIN disabled THEN
               /\ mfsRet' = [op |-> "Remove", mpath |-> mpath0, err |-> "non-existing"]
               /\ UNCHANGED <<available, disabled, fsIDs, checkFsID, xattrMpath, iostats, mfsMu, rd>>
           ELSE
               /\ fsIDs' = MapDelete(fsIDs, disabled[mpath].Fsid)
               /\ updatePaths(available, MapDelete(disabled, mpath))
               /\ mfsRet' = [op |-> "Remove", mpath |-> mpath0, err |-> ""]
               /\ UNCHANGED <<disabled, checkFsID, xattrMpath, iostats>>
       ELSE
           /\ iostats' = iostats \ {mpath}
           /\ fsIDs' = MapDelete(fsIDs, available[mpath].Fsid)
           /\ updatePaths(MapDelete(available, mpath), disabled)
           /\ mfsRet' = [op |-> "Remove", mpath |-> mpath0, err |-> ""]
           /\ UNCHANGED <<disabled, checkFsID, xattrMpath>>

\* a call of MountedFS.Remove from outside the fsprungroup
Remove(mpath0) ==
    /\ MountpathsRemove(mpath0)
    /\ UNCHANGED notMfs

\* faulty variant: Enable takes the mountpath out of the disabled map only
EnabledLost(availablePaths, disabledPaths, mpath) == availablePaths

\* availablePaths[cleanMpath] = mp, mp being the entry of the disabled map
Enabled(availablePaths, disabledPaths, mpath) == MapPut(availablePaths, mpath, disabledPaths[mpath])

\* MountedFS.Enable up to its first store
MountpathsEnable(mpath0) ==
    LET mpath == Clean(mpath0) IN
    /\ mfsMu = Nil
    /\ IF mpath \in DOMAIN available THEN
           /\ mfsRet' = [op |-> "Enable", mpath |-> mpath0, changed |-> FALSE, exists |-> TRUE]
           /\ UNCHANGED <<available, disabled, fsIDs, checkFsID, xattrMpath, iostats, mfsMu, rd>>
       ELSE IF mpath \in DOMAIN disabled THEN
           /\ iostats' = iostats \cup {mpath}
           /\ updatePaths(Enabled(available, disabled, mpath), MapDelete(disabled, mpath))
           /\ mfsRet' = [op |-> "Enable", mpath |-> mpath0, changed |-> TRUE, exists |-> TRUE]
           /\ UNCHANGED <<disabled, fsIDs, checkFsID, xattrMpath>>
       ELSE
           /\ mfsRet' = [op |-> "Enable", mpath |-> mpath0, changed |-> FALSE, exists |-> FALSE]
           /\ UNCHANGED <<available, disabled, fsIDs, checkFsID, xattrMpath, iostats, mfsMu, rd>>

\* a call of MountedFS.Enable from outside the fsprungroup
Enable(mpath0) ==
    /\ MountpathsEnable(mpath0)
    /\ UNCHANGED notMfs

\* MountedFS.Disable up to its first store
MountpathsDisable(mpath0) ==
    LET mpath == Clean(mpath0) IN
    /\ mfsMu = Nil
    /\ IF mpath \in DOMAIN available THEN
           /\ iostats' = iostats \ {mpath}
           /\ updatePaths(MapDelete(available, mpath), MapPut(disabled, mpath, available[mpath]))
           /\ mfsRet' = [op |-> "Disable", mpath |-> mpath0, changed |-> TRUE, exists |-> TRUE]
           /\ UNCHANGED <<disabled, fsIDs, checkFsID, xattrMpath>>
       ELSE IF mpath \in DOMAIN disabled THEN
           /\ mfsRet' = [op |-> "Disable", mpath |-> mpath0, changed |-> FALSE, exists |-> TRUE]
           /\ UNCHANGED <<available, disabled, fsIDs, checkFsID, xattrMpath, iostats, mfsMu, rd>>
       ELSE
           /\ mfsRet' = [op |-> "Disable", mpath |-> mpath0, changed |-> FALSE, exists |-> FALSE]
           /\ UNCHANGED <<available, disabled, fsIDs, checkFsID, xattrMpath, iostats, mfsMu, rd>>

\* a call of MountedFS.Disable from outside the fsprungroup
Disable(mpath0) ==
    /\ MountpathsDisable(mpath0)
    /\ UNCHANGED notMfs

\* MountedFS.DisableFsIDCheck (not under mfs.mu)
DisableFsIDCheck ==
    /\ checkFsID
    /\ checkFsID' = FALSE
    /\ UNCHANGED <<available, disabled, fsIDs, xattrMpath, iostats, mfsMu, mfsRet, rd>>
    /\ UNCHANGED notMfs

\* the registered paths, as the publication in progress has them
Registered ==
    DOMAIN available \cup DOMAIN (IF mfsMu = Nil THEN disabled ELSE mfsMu.disabled)

\* MountedFS.Get, first load: mfs.available.Load()
GetLoadAvailable ==
    /\ rd.pc # "available"
    /\ rd' = [pc |-> "available", available |-> available, disabled |-> EmptyMap,
              reg |-> Registered]
    /\ UNCHANGED <<available, disabled, fsIDs, checkFsID, xattrMpath, iostats, mfsMu, mfsRet>>
    /\ UNCHANGED notMfs

\* MountedFS.Get, second load: mfs.disabled.Load(), and the return
GetLoadDisabled ==
    /\ rd.pc = "available"
    /\ rd' = [rd EXCEPT !.pc = "done", !.disabled = disabled]
    /\ UNCHANGED <<available, disabled, fsIDs, checkFsID, xattrMpath, iostats, mfsMu, mfsRet>>
    /\ UNCHANGED notMfs

\* NewMountedFS: no mountpaths, the fsid check is on
InitMfs ==
    /\ available = EmptyMap
    /\ disabled = EmptyMap
    /\ fsIDs = EmptyMap
    /\ checkFsID = TRUE
    /\ xattrMpath = Nil
    /\ iostats = {}
    /\ mfsMu = Nil
    /\ mfsRet = Nil
    /\ rd = [pc |-> "idle", available |-> EmptyMap, disabled |-> EmptyMap, reg |-> {}]

\* the loop of MpathForXattr: the mountpath of the map with the largest
\* PathDigest above maxVal = 0, or Nil
HrwMpath(avail) ==
    LET above == {k \in DOMAIN avail : avail[k].PathDigest > 0} IN
    IF above = {} THEN Nil
    ELSE avail[CHOOSE k \in above : \A o \in above : avail[o].PathDigest <= avail[k].PathDigest]

\* the caller of MpathForXattr returns mpath, err
XattrReturn(mpath, err, fast) ==
    [pc |-> "idle", mpath |-> mpath, err |-> err, fast |-> fast, calls |-> xm.calls + 1]

\* MpathForXattr, fast path: mfs.xattrMpath.Load()
MpathForXattrFast ==
    /\ xm.pc = "idle"
    /\ xm.calls < MaxXattrCalls
    /\ xm' = IF xattrMpath # Nil THEN XattrReturn(xattrMpath, "", TRUE)
             ELSE [xm EXCEPT !.pc = "slow"]
    /\ UNCHANGED mfsVars
    /\ UNCHANGED notXattr

\* MpathForXattr, slow path: mfs.available.Load() and the choice
MpathForXattrSlow ==
    /\ xm.pc = "slow"
    /\ xm' = IF available = EmptyMap THEN XattrReturn(Nil, "no mountpath available", FALSE)
             ELSE IF HrwMpath(available) = Nil THEN XattrReturn(Nil, "failed to choose a mountpath", FALSE)
             ELSE [xm EXCEPT !.pc = "store", !.mpath = HrwMpath(available)]
    /\ UNCHANGED mfsVars
    /\ UNCHANGED notXattr

\* MpathForXattr, slow path: mfs.xattrMpath.Store(mpath) and the return
MpathForXattrStore ==
    /\ xm.pc = "store"
    /\ xattrMpath' = xm.mpath
    /\ xm' = XattrReturn(xm.mpath, "", FALSE)
    /\ UNCHANGED <<available, disabled, fsIDs, checkFsID, iostats, mfsMu, mfsRet, rd>>
    /\ UNCHANGED notXattr

InitXattr ==
    xm = [pc |-> "idle", mpath |-> Nil, err |-> "", fast |-> FALSE, calls |-> 0]

(***************************************************************************)
(* Package ais: the fsprungroup of the target                              *)
(***************************************************************************)

\* the mountpaths a caller of the fsprungroup names
GroupInputs == {<<"a">>, <<"b">>, <<"c">>}

\* len(availablePaths)
LenAvailable == Cardinality(DOMAIN available)

MaxCallers == 2   \* concurrent callers of the fsprungroup
Callers == 1..MaxCallers

\* the xaction is a runner of the group: its Run has not returned
IsRunner(x) == xacts[x].pc \in {"run", "drain"}

\* g.runners
Runners == {x \in 1..Len(xacts) : IsRunner(x)}

\* a call begins and goes on at pc after its MountedFS call. History:
\*   before  the number of available mountpaths when it began
\*   was     the keys of the two maps when it began
\*   ran     g.runners when it began
\*   told    the runners notified so far, in order
GroupAt(pc, op, mpath) ==
    [pc |-> pc, op |-> op, ok |-> FALSE, before |-> LenAvailable, n |-> 0,
     mpath |-> mpath, told |-> <<>>,
     was |-> <<DOMAIN available, DOMAIN disabled>>, ran |-> Runners]

\* the call returns
GroupReturn(g, ok, n) == [g EXCEPT !.pc = "idle", !.ok = ok, !.n = n]

\* addMountpath up to the first store of fs.Mountpaths.Add
addMountpath(c, mpath) ==
    /\ grp[c].pc = "idle"
    /\ MountpathsAdd(mpath, TRUE)
    /\ grp' = [grp EXCEPT ![c] =
                 IF mfsRet'.err # "" THEN GroupReturn(GroupAt("idle", "add", mpath), FALSE, 0)
                 ELSE GroupAt("CreateBucketDir", "add", mpath)]
    /\ UNCHANGED tgt
    /\ UNCHANGED notGrp

\* removeMountpath up to the first store of fs.Mountpaths.Remove
removeMountpath(c, mpath) ==
    /\ grp[c].pc = "idle"
    /\ MountpathsRemove(mpath)
    /\ grp' = [grp EXCEPT ![c] =
                 IF mfsRet'.err # "" THEN GroupReturn(GroupAt("idle", "remove", mpath), FALSE, 0)
                 ELSE GroupAt("notify", "remove", mpath)]
    /\ UNCHANGED tgt
    /\ UNCHANGED notGrp

\* enableMountpath up to the first store of fs.Mountpaths.Enable
enableMountpath(c, mpath) ==
    /\ grp[c].pc = "idle"
    /\ MountpathsEnable(mpath)
    /\ grp' = [grp EXCEPT ![c] =
                 IF ~mfsRet'.changed \/ ~mfsRet'.exists
                 THEN GroupReturn(GroupAt("idle", "enable", mpath), FALSE, 0)
                 ELSE GroupAt("notify", "enable", mpath)]
    /\ UNCHANGED tgt
    /\ UNCHANGED notGrp

\* disableMountpath up to the first store of fs.Mountpaths.Disable
disableMountpath(c, mpath) ==
    /\ grp[c].pc = "idle"
    /\ MountpathsDisable(mpath)
    /\ grp' = [grp EXCEPT ![c] =
                 IF ~mfsRet'.changed \/ ~mfsRet'.exists
                 THEN GroupReturn(GroupAt("idle", "disable", mpath), FALSE, 0)
                 ELSE GroupAt("notify", "disable", mpath)]
    /\ UNCHANGED tgt
    /\ UNCHANGED notGrp

\* addMountpath: the two calls of fs.Mountpaths.CreateBucketDir, which
\* create directories and can fail
CreateBucketDir(c, created) ==
    /\ grp[c].pc = "CreateBucketDir"
    /\ mfsMu = Nil
    /\ grp' = [grp EXCEPT ![c] =
                 IF created THEN [@ EXCEPT !.pc = "notify"]
                 ELSE GroupReturn(@, FALSE, 0)]
    /\ UNCHANGED tgt
    /\ UNCHANGED mfsVars
    /\ UNCHANGED notGrp

mpathReqChCap == 1   \* capacity of mpathReqCh

\* XactPut.ReqAddMountpath and ReqRemoveMountpath send on mpathReqCh
SendsMpathReq(op) == op \in {"add", "remove"}

\* the four operations: for _, r := range g.runners, one round per step
\* (grp[c].n counts the rounds). r.ReqAddMountpath(mpath) and
\* r.ReqRemoveMountpath(mpath) send on the runner's mpathReqCh;
\* r.ReqEnableMountpath and r.ReqDisableMountpath do nothing.
NotifyRunners(c) ==
    /\ grp[c].pc = "notify"
    /\ mfsMu = Nil
    /\ IF grp[c].n < Len(xacts)
       THEN LET x == grp[c].n + 1 IN
            IF IsRunner(x)
            THEN /\ SendsMpathReq(grp[c].op) => Len(xacts[x].mpathReqCh) < mpathReqChCap
                 /\ xacts' = IF SendsMpathReq(grp[c].op)
                             THEN [xacts EXCEPT ![x].mpathReqCh =
                                     Append(@, [action |-> grp[c].op, mpath |-> grp[c].mpath])]
                             ELSE xacts
                 /\ grp' = [grp EXCEPT ![c].n = @ + 1, ![c].told = Append(@, x)]
            ELSE /\ grp' = [grp EXCEPT ![c].n = @ + 1]
                 /\ UNCHANGED xacts
       ELSE /\ grp' = [grp EXCEPT ![c].n = 0,
                                  ![c].pc = IF grp[c].op \in {"add", "enable"} THEN "Get"
                                            ELSE "checkNoMountpaths"]
            /\ UNCHANGED xacts
    /\ UNCHANGED <<put, reqs, ctl, clock, tgt>>
    /\ UNCHANGED <<mgrVars, mfsVars, mirVars, xactVars, xattrVars, remVars, lomVars, cfgVars>>

\* addMountpath: len(availablePaths) > 1 is false
AddedTheFirst(n) == ~(n > 1)

\* enableMountpath: len(availablePaths) == 1
EnabledTheFirst(n) == n = 1

\* addMountpath and enableMountpath: fs.Mountpaths.Get() and the test for
\* the first mountpath
GroupGet(c) ==
    /\ grp[c].pc = "Get"
    /\ mfsMu = Nil
    /\ LET n == LenAvailable
           first == IF grp[c].op = "add" THEN AddedTheFirst(n) ELSE EnabledTheFirst(n)
       IN  grp' = [grp EXCEPT ![c] =
                     IF first THEN [@ EXCEPT !.pc = "enable", !.n = n]
                     ELSE GroupReturn(@, TRUE, n)]
    /\ UNCHANGED tgt
    /\ UNCHANGED mfsVars
    /\ UNCHANGED notGrp

\* faulty variant: checkNoMountpaths always finds a mountpath
NoMountpathsNever(n) == FALSE

\* checkNoMountpaths: len(availablePaths) > 0 is false
NoMountpaths(n) == ~(n > 0)

\* removeMountpath and disableMountpath: checkNoMountpaths up to its test
checkNoMountpaths(c) ==
    /\ grp[c].pc = "checkNoMountpaths"
    /\ mfsMu = Nil
    /\ LET n == LenAvailable
       IN  grp' = [grp EXCEPT ![c] =
                     IF NoMountpaths(n) THEN [@ EXCEPT !.pc = "disable", !.n = n]
                     ELSE GroupReturn(@, TRUE, n)]
    /\ UNCHANGED tgt
    /\ UNCHANGED mfsVars
    /\ UNCHANGED notGrp

\* g.t.enable(): the target registers itself in the cluster
TargetEnable(c) ==
    /\ grp[c].pc = "enable"
    /\ tgt' = [tgt EXCEPT !.registered = TRUE]
    /\ grp' = [grp EXCEPT ![c] = GroupReturn(@, TRUE, @.n)]
    /\ UNCHANGED mfsVars
    /\ UNCHANGED notGrp

\* g.t.disable(): the target unregisters itself from the cluster
TargetDisable(c) ==
    /\ grp[c].pc = "disable"
    /\ tgt' = [tgt EXCEPT !.registered = FALSE]
    /\ grp' = [grp EXCEPT ![c] = GroupReturn(@, TRUE, @.n)]
    /\ UNCHANGED mfsVars
    /\ UNCHANGED notGrp

\* the mountpath manager of a started target: one configured mountpath
InitMfsStarted ==
    LET mpath == <<"c">>
        mp == newMountpath(mpath, Statfs(mpath), Fqn2fsAtStartup(mpath))
    IN
    /\ available = MapPut(EmptyMap, mp.Path, mp)
    /\ disabled = EmptyMap
    /\ fsIDs = AddFsID(EmptyMap, mp, mpath)
    /\ checkFsID = TRUE
    /\ xattrMpath = Nil
    /\ iostats = {mp.Path}
    /\ mfsMu = Nil
    /\ mfsRet = Nil
    /\ rd = [pc |-> "idle", available |-> EmptyMap, disabled |-> EmptyMap, reg |-> {}]

InitGroup ==
    /\ tgt = [registered |-> TRUE]
    /\ grp = [c \in Callers |->
                [pc |-> "idle", op |-> "none", ok |-> FALSE, before |-> 0, n |-> 0,
                 mpath |-> <<>>, told |-> <<>>, was |-> <<{}, {}>>, ran |-> {}]]

(***************************************************************************)
(* Package mirror: findLeastUtilized and copyTo                            *)
(***************************************************************************)

MaxMpaths == 3   \* mountpaths of the target; mountpath i stands for "/mnt/i"

utilSentinel == 101   \* var util int64 = 101

Mpaths == 1..MaxMpaths
UtilLevels == {0, 100}

\* fs.CSM.FQN: the name of the object "o" of the local bucket "B" under a
\* mountpath and a content type, as the sequence of its segments
FQN(mpath, contentType) == <<mpath, contentType, "local", "B", "o">>

\* fs.CSM.GenContentParsedFQN for a workfile
GenContentParsedFQN(mpath) == <<mpath, "work", "local", "B", "o.put.tie">>

\* fs.Mountpaths.FQN2Info: the name parses when it lies under a registered
\* mountpath
FQN2Info(fqn) == [ok |-> fqn[1] \in mirMpaths /\ Len(fqn) = 5, Path |-> fqn[1]]

\* Iostats.GetDiskUtil
GetDiskUtil(mpath) == dutil[mpath]

Range(s) == {s[i] : i \in DOMAIN s}

HasCopies(l) == l.copyFQN # <<>>

\* a candidate that is never taken to host a copy
HostsNothing(l, j) == FALSE

\* the inner loop of findLeastUtilized: candidate j is skipped when a copy
\* FQN does not parse or names a file under j
HostsCopy(l, j) ==
    /\ HasCopies(l)
    /\ \E cpyfqn \in Range(l.copyFQN) :
           \/ ~FQN2Info(cpyfqn).ok
           \/ FQN2Info(cpyfqn).Path = j

\* the loop of findLeastUtilized over the candidates in the order in which
\* the map iteration yields them; 0 is the nil mpather
RECURSIVE findLeastUtilizedFrom(_, _, _, _)
findLeastUtilizedFrom(l, order, out, util) ==
    IF order = <<>> THEN out
    ELSE LET j == Head(order) IN
         IF j = l.ParsedMpath THEN findLeastUtilizedFrom(l, Tail(order), out, util)
         ELSE IF HostsCopy(l, j) THEN findLeastUtilizedFrom(l, Tail(order), out, util)
         ELSE IF GetDiskUtil(j) < util
              THEN findLeastUtilizedFrom(l, Tail(order), j, GetDiskUtil(j))
              ELSE findLeastUtilizedFrom(l, Tail(order), out, util)

findLeastUtilized(l, order) == findLeastUtilizedFrom(l, order, 0, utilSentinel)

\* the orders in which a map over the candidates can be iterated
Orders(cands) ==
    {o \in [1..Cardinality(cands) -> cands] : \A i, k \in DOMAIN o : i # k => o[i] # o[k]}

NoXattr == [has |-> FALSE, copyFQN |-> <<>>]

\* copyLOM := lom.Clone(cpyFQN); copyLOM.SetCopyFQN([]string{lom.FQN})
CloneKeepsCopies(l, cpyFQN) == [FQN |-> cpyFQN, ParsedMpath |-> cpyFQN[1], copyFQN |-> l.copyFQN]
CloneOf(l, cpyFQN) == [FQN |-> cpyFQN, ParsedMpath |-> cpyFQN[1], copyFQN |-> <<l.FQN>>]

\* lom.Persist: the copy list goes into the extended attribute of the file
Persist(d, l) == MapPut(d, l.FQN, [has |-> TRUE, copyFQN |-> l.copyFQN])

CopyOutcomes ==
    {"ok", "copy failed", "rename failed", "persist failed", "copy persist failed"}

\* copyTo(lom, mpathInfo) with the given outcome of its file operations;
\* removeOk tells whether the os.Remove of the error path succeeds.
\* The result is the LOM, the cache entry and the files after the call.
copyTo(l, mpathInfo, outcome, removeOk) ==
    LET workFQN == GenContentParsedFQN(mpathInfo)
        cpyFQN  == FQN(mpathInfo, "obj")
        \* cmn.MvFile(workFQN, cpyFQN) after lom.CopyObject(workFQN)
        moved   == MapPut(disk, cpyFQN, NoXattr)
        \* lom.AddXcopy(cpyFQN)
        added   == [l EXCEPT !.copyFQN = Append(@, cpyFQN)]
        rolled(d) == IF removeOk THEN MapDelete(d, cpyFQN) ELSE d
    IN
    CASE outcome = "copy failed" ->
           [lom |-> l, cache |-> lomCache, disk |-> disk]
      [] outcome = "rename failed" ->
           [lom |-> l, cache |-> lomCache,
            disk |-> IF removeOk THEN disk ELSE MapPut(disk, workFQN, NoXattr)]
      [] outcome = "persist failed" ->
           [lom |-> added, cache |-> added, disk |-> rolled(moved)]
      [] outcome = "copy persist failed" ->
           [lom |-> added, cache |-> added, disk |-> rolled(Persist(moved, added))]
      [] OTHER ->
           [lom |-> added, cache |-> added,
            disk |-> Persist(Persist(moved, added), CloneOf(added, cpyFQN))]

\* history: mir holds the last call until the utilization or the
\* mountpaths change
NoCall == [op |-> "none"]

\* findLeastUtilized called for the LOM with some candidate mpathers
FindLeastUtilized(cands) ==
    /\ cands \subseteq mirMpaths
    /\ \E order \in Orders(cands) :
           mir' = [op |-> "find", cands |-> cands, out |-> findLeastUtilized(lom, order)]
    /\ UNCHANGED <<mirMpaths, dutil, disk, lom, lomCache>>
    /\ UNCHANGED notMirror

\* a mirror jogger: copy the object to the least utilized mountpath, if any
addCopy(outcome, removeOk) ==
    /\ \E order \in Orders(mirMpaths) :
           LET out == findLeastUtilized(lom, order)
               res == copyTo(lom, out, outcome, removeOk)
           IN
           /\ out # 0
           /\ lom' = res.lom
           /\ lomCache' = res.cache
           /\ disk' = res.disk
           /\ mir' = [op |-> "copyTo", dest |-> out, outcome |-> outcome,
                      before |-> lom.copyFQN]
    /\ UNCHANGED <<mirMpaths, dutil>>
    /\ UNCHANGED notMirror

\* the disk utilization of a mountpath changes
SetDiskUtil(mpath, u) ==
    /\ dutil[mpath] # u
    /\ dutil' = [dutil EXCEPT ![mpath] = u]
    /\ mir' = NoCall
    /\ UNCHANGED <<mirMpaths, disk, lom, lomCache>>
    /\ UNCHANGED notMirror

\* a mountpath other than the primary's is removed from the target
MpathRemoved(mpath) ==
    /\ mpath \in mirMpaths
    /\ mpath # lom.ParsedMpath
    /\ mirMpaths' = mirMpaths \ {mpath}
    /\ mir' = NoCall
    /\ UNCHANGED <<dutil, disk, lom, lomCache>>
    /\ UNCHANGED notMirror

\* the object was put on mountpath mpath: one file, no copies, LOM cached
InitMirrorWith(mpath) ==
    LET l == [FQN |-> FQN(mpath, "obj"), ParsedMpath |-> mpath, copyFQN |-> <<>>] IN
    /\ mirMpaths = Mpaths
    /\ dutil = [m \in Mpaths |-> 0]
    /\ lom = l
    /\ lomCache = l
    /\ disk = Persist(EmptyMap, l)
    /\ mir = NoCall

(***************************************************************************)
(* cmn.XactBase.Abort and cmn.XactDemandBase on a running Put xaction      *)
(***************************************************************************)

MaxAborters   == 2   \* goroutines that call Abort()
MaxAbortCalls == 1   \* Abort() calls of one goroutine
MaxPending    == 3   \* IncPending calls outstanding on the bare demand base
MaxIdle       == 3   \* Timeout() calls in a row that return true

Aborters == 1..MaxAborters

\* faulty variant: an Abort that never looks at the flag
AbortAlwaysWins(x) == TRUE

\* xact.aborted.CAS(false, true) succeeds
AbortCAS(x) == ~x.aborted

\* XactBase.Abort, the compare-and-swap; a caller that loses it returns
AbortSwap(a, x) ==
    /\ ab[a].pc = "idle"
    /\ ab[a].calls < MaxAbortCalls
    /\ x <= Len(xacts)
    /\ IF AbortCAS(xacts[x])
       THEN /\ xacts' = [xacts EXCEPT ![x].aborted = TRUE]
            /\ ab' = [ab EXCEPT ![a] = [@ EXCEPT !.pc = "store", !.x = x, !.won = TRUE]]
       ELSE /\ xacts' = xacts
            /\ ab' = [ab EXCEPT ![a] = [@ EXCEPT !.x = x, !.won = FALSE, !.calls = @ + 1]]
    /\ UNCHANGED <<put, reqs, ctl, clock, tmo, dem>>
    /\ UNCHANGED notXact

\* XactBase.Abort: xact.eutime.Store(time.Now().UnixNano())
AbortStore(a) ==
    /\ ab[a].pc = "store"
    /\ xacts' = [xacts EXCEPT ![ab[a].x].eutime = clock]
    /\ clock' = clock + 1
    /\ ab' = [ab EXCEPT ![a].pc = "close"]
    /\ UNCHANGED <<put, reqs, ctl, tmo, dem>>
    /\ UNCHANGED notXact

\* XactBase.Abort: close(xact.abrt)
AbortClose(a) ==
    /\ ab[a].pc = "close"
    /\ xacts' = [xacts EXCEPT ![ab[a].x].abrtClosed = @ + 1]
    /\ ab' = [ab EXCEPT ![a] = [@ EXCEPT !.pc = "idle", !.calls = @ + 1]]
    /\ UNCHANGED <<put, reqs, ctl, clock, tmo, dem>>
    /\ UNCHANGED notXact

\* faulty variant: the abort channel is never ready
ChanAbortNever(x) == FALSE

\* a receive on ChanAbort() is ready: the channel is closed
ChanAbort(x) == x.abrtClosed > 0

\* XactPut.Run, case <-r.ChanAbort(): r.stop(); return the "aborted" error
RunAbort(x) ==
    /\ x <= Len(xacts)
    /\ xacts[x].pc = "run"
    /\ ChanAbort(xacts[x])
    /\ xacts' = [xacts EXCEPT ![x] = [stop(xacts[x], clock) EXCEPT !.pc = "done",
                                                                   !.retErr = "aborted"]]
    /\ clock' = clock + 1
    /\ UNCHANGED <<put, reqs, ctl, ab, tmo, dem>>
    /\ UNCHANGED notXact

\* history of a Timeout() call on a demand base d with history h:
\*   renewed  Renew() was called since the previous Timeout() call
\*   armed    Renew() was called since the previous Timeout() call that
\*            found the pending counter at zero
\* and, for the call itself, what it returned and what it found
TimeoutCalled(h, d) ==
    [renewed |-> FALSE,
     armed |-> IF d.pending > 0 THEN h.armed ELSE FALSE,
     called |-> TRUE,
     ret |-> Timeout(d)[1],
     wasPending |-> d.pending,
     wasRenewed |-> h.renewed,
     wasArmed |-> h.armed]

NoTimeout ==
    [renewed |-> FALSE, armed |-> FALSE, called |-> FALSE, ret |-> FALSE,
     wasPending |-> 0, wasRenewed |-> FALSE, wasArmed |-> FALSE]

\* XactDemandBase.Renew on a running Put xaction
Renew(x) ==
    /\ x <= Len(xacts)
    /\ ~Finished(xacts[x])
    /\ xacts' = [xacts EXCEPT ![x].renew = 1]
    /\ tmo' = [tmo EXCEPT ![x] = [@ EXCEPT !.renewed = TRUE, !.armed = TRUE]]
    /\ UNCHANGED <<put, reqs, ctl, clock, ab, dem>>
    /\ UNCHANGED notXact

\* XactPut.Run, case <-r.ChanCheckTimeout() once the idle time is over
RunIdle(x) ==
    /\ IdleTick(x, TRUE)
    /\ tmo' = [tmo EXCEPT ![x] = TimeoutCalled(tmo[x], xacts[x])]
    /\ UNCHANGED <<ab, dem>>
    /\ UNCHANGED notXact

\* ---- a bare XactDemandBase, any sequence of calls

DemRenew ==
    /\ dem' = [dem EXCEPT !.d.renew = 1, !.h.renewed = TRUE, !.h.armed = TRUE]
    /\ UNCHANGED <<ecVars, ab, tmo>>
    /\ UNCHANGED notXact

DemIncPending ==
    /\ dem.d.pending < MaxPending
    /\ dem' = [dem EXCEPT !.d.pending = @ + 1]
    /\ UNCHANGED <<ecVars, ab, tmo>>
    /\ UNCHANGED notXact

DemDecPending ==
    /\ dem.d.pending > 0
    /\ dem' = [dem EXCEPT !.d.pending = @ - 1]
    /\ UNCHANGED <<ecVars, ab, tmo>>
    /\ UNCHANGED notXact

DemTimeout ==
    /\ dem.d.renew > -MaxIdle
    /\ dem' = [d |-> Timeout(dem.d)[2], h |-> TimeoutCalled(dem.h, dem.d)]
    /\ UNCHANGED <<ecVars, ab, tmo>>
    /\ UNCHANGED notXact

\* NewXactDemandBase: renew and pending are zero; nobody has called Abort
InitXact ==
    /\ ab = [a \in Aborters |-> [pc |-> "idle", x |-> 0, won |-> FALSE, calls |-> 0]]
    /\ tmo = [x \in XIds |-> NoTimeout]
    /\ dem = [d |-> [renew |-> 0, pending |-> 0], h |-> NoTimeout]

(***************************************************************************)
(* ec.xactECBase: readRemote, the pending-writer registry, writerReceive   *)
(***************************************************************************)

Readers == 1..MaxReaders

\* uname = daemonID + bucket + object; two restores of one object from one
\* target use the same uname
Unames == {"t1/b/o1", "t1/b/o2"}

\* the object attributes a response header can carry
ObjAttrs ==
    { [CksumType |-> "xxhash", CksumValue |-> "c1", Version |-> "v1"],
      [CksumType |-> "xxhash", CksumValue |-> "c2", Version |-> ""] }

\* cmn.NewCksum
NewCksum(kind, value) ==
    IF kind = "" \/ value = "" THEN Nil ELSE [kind |-> kind, value |-> value]

\* readRemote: sw := &slice{writer, wg, lom}; sw.wg.Add(1)
NewSlice == [wg |-> 1, cksum |-> Nil, version |-> "", closed |-> FALSE]

\* faulty variant: regWriter replaces an existing registration
regWriterOverwrites(sl, uname, writer) ==
    <<uname \notin DOMAIN sl, MapPut(sl, uname, writer)>>

\* xactECBase.regWriter: the pair <<return value, dOwner.slices after>>
regWriter(sl, uname, writer) ==
    IF uname \in DOMAIN sl THEN <<FALSE, sl>> ELSE <<TRUE, MapPut(sl, uname, writer)>>

\* faulty variant: unregWriter leaves the registration
unregWriterNothing(sl, uname) == sl

\* xactECBase.unregWriter: dOwner.slices after the call
unregWriter(sl, uname) == [x \in DOMAIN sl \ {uname} |-> sl[x]]

NoResponse ==
    [pc |-> "none", uname |-> "", exists |-> FALSE, attrs |-> Nil, writer |-> 0,
     found |-> FALSE, signalled |-> FALSE, drained |-> FALSE, ret |-> ""]

\* readRemote up to r.regWriter(uname, sw); the return value of regWriter
\* is not looked at (kept in regOk as history)
readRemote(c, uname) ==
    /\ rr[c].pc = "idle"
    /\ sw' = [sw EXCEPT ![c] = NewSlice]
    /\ slices' = regWriter(slices, uname, c)[2]
    /\ rr' = [rr EXCEPT ![c] = [pc |-> "send", uname |-> uname,
                                regOk |-> regWriter(slices, uname, c)[1], err |-> ""]]
    /\ UNCHANGED rsp
    /\ UNCHANGED notRemote

\* readRemote: r.sendByDaemonID; on an error unregWriter and return it
readRemoteSend(c, sent) ==
    /\ rr[c].pc = "send"
    /\ IF sent
       THEN /\ rr' = [rr EXCEPT ![c].pc = "wait"]
            /\ rsp' = [rsp EXCEPT ![c] = [NoResponse EXCEPT !.pc = "flight", !.uname = rr[c].uname]]
            /\ UNCHANGED slices
       ELSE /\ slices' = unregWriter(slices, rr[c].uname)
            /\ rr' = [rr EXCEPT ![c].pc = "returned", ![c].err = "send"]
            /\ UNCHANGED rsp
    /\ UNCHANGED sw
    /\ UNCHANGED notRemote

\* readRemote: sw.wg.WaitTimeout returns true (the timer fired while the
\* wait-group was not done); unregWriter and return the timeout error
readRemoteTimeout(c) ==
    /\ rr[c].pc = "wait"
    /\ sw[c].wg > 0
    /\ slices' = unregWriter(slices, rr[c].uname)
    /\ rr' = [rr EXCEPT ![c].pc = "returned", ![c].err = "timed out"]
    /\ UNCHANGED <<sw, rsp>>
    /\ UNCHANGED notRemote

\* readRemote: the wait-group is done; unregWriter, lom.Load, return nil
readRemoteDone(c) ==
    /\ rr[c].pc = "wait"
    /\ sw[c].wg <= 0
    /\ slices' = unregWriter(slices, rr[c].uname)
    /\ rr' = [rr EXCEPT ![c].pc = "returned", ![c].err = ""]
    /\ UNCHANGED <<sw, rsp>>
    /\ UNCHANGED notRemote

\* the receive handler of the response bundle: the response to request c
\* arrives, the handler looks the writer up in dOwner.slices by uname
ResponseArrives(c, exists, attrs) ==
    /\ rsp[c].pc = "flight"
    /\ rsp' = [rsp EXCEPT ![c] =
                 IF rsp[c].uname \in DOMAIN slices
                 THEN [@ EXCEPT !.pc = "receive", !.exists = exists, !.attrs = attrs,
                                !.writer = slices[rsp[c].uname], !.found = TRUE]
                 ELSE [@ EXCEPT !.pc = "end", !.exists = exists, !.attrs = attrs,
                                !.ret = "no writer"]]
    /\ UNCHANGED <<slices, rr, sw>>
    /\ UNCHANGED notRemote

\* writerReceive: writer.version is replaced when neither it nor the
\* version of the response is empty
StampVersion(version, attrs) ==
    IF version # "" /\ attrs.Version # "" THEN attrs.Version ELSE version

\* writerReceive, first half. Exists=false: writer.wg.Done().
\* Exists=true: copy the body into the writer, close the file, set the
\* checksum and the version.
writerReceive(c) ==
    LET w == rsp[c].writer IN
    /\ rsp[c].pc = "receive"
    /\ IF ~rsp[c].exists
       THEN /\ sw' = [sw EXCEPT ![w].wg = @ - 1]
            /\ rsp' = [rsp EXCEPT ![c].pc = "second", ![c].signalled = TRUE]
       ELSE /\ sw' = [sw EXCEPT ![w].closed = TRUE,
                                ![w].cksum = NewCksum(rsp[c].attrs.CksumType, rsp[c].attrs.CksumValue),
                                ![w].version = StampVersion(@, rsp[c].attrs)]
            /\ rsp' = [rsp EXCEPT ![c].pc = "second", ![c].drained = TRUE]
    /\ UNCHANGED <<slices, rr>>
    /\ UNCHANGED notRemote

\* writerReceive, second half. Exists=false: drain the body, return
\* ErrorNotFound. Exists=true: writer.wg.Done(), return.
writerReceiveEnd(c) ==
    LET w == rsp[c].writer IN
    /\ rsp[c].pc = "second"
    /\ IF ~rsp[c].exists
       THEN /\ rsp' = [rsp EXCEPT ![c].pc = "end", ![c].drained = TRUE, ![c].ret = "ErrorNotFound"]
            /\ UNCHANGED sw
       ELSE /\ sw' = [sw EXCEPT ![w].wg = @ - 1]
            /\ rsp' = [rsp EXCEPT ![c].pc = "end", ![c].signalled = TRUE]
    /\ UNCHANGED <<slices, rr>>
    /\ UNCHANGED notRemote

InitRemote ==
    /\ slices = EmptyMap
    /\ rr = [c \in Readers |-> [pc |-> "idle", uname |-> "", regOk |-> FALSE, err |-> ""]]
    /\ sw = [c \in Readers |-> NewSlice]
    /\ rsp = [c \in Readers |-> NoResponse]

(***************************************************************************)
(* cluster.LOM: Persist, LoadMetaFromFS, Load and the extended attribute   *)
(***************************************************************************)

\* Strings are sequences of bytes. The values a LOM is given:
CksumTypes == {<<120>>}
CksumValues == {<<7, 8>>, <<9>>}
Versions == {<<3>>, <<4, 5>>}
CopyLists == {<<>>, <<(<<11>>)>>, <<(<<11>>), <<12, 13>> >>}

\* the persisted part of a LOM
Metas ==
    [cksumType : CksumTypes, cksumValue : CksumValues, version : Versions, copyFQN : CopyLists]

RECURSIVE SumBytes(_)
SumBytes(b) == IF b = <<>> THEN 0 ELSE Head(b) + SumBytes(Tail(b))

RECURSIVE WeightedSum(_)
WeightedSum(b) == IF b = <<>> THEN 0 ELSE Len(b) * Head(b) + WeightedSum(Tail(b))

\* the checksum of the metadata: two bytes over the fields
MetaCksum(payload) == <<SumBytes(payload) % 256, WeightedSum(payload) % 256>>

\* a length-prefixed field
Field(str) == <<Len(str)>> \o str

RECURSIVE Fields(_)
Fields(list) == IF list = <<>> THEN <<>> ELSE Field(Head(list)) \o Fields(Tail(list))

\* 4-byte magic
Magic == <<65, 73, 83, 76>>

\* faulty variant: the copy-FQN list is not marshalled
MarshalNoCopies(m) ==
    LET payload == Field(m.cksumType) \o Field(m.cksumValue) \o Field(m.version) \o <<0>>
    IN  Magic \o <<1, Len(MetaCksum(payload))>> \o MetaCksum(payload) \o payload

\* Persist: magic, format version, length of the metadata checksum, the
\* checksum, then the length-prefixed fields checksum type, checksum value,
\* object version, count and list of the copy-FQNs
Marshal(m) ==
    LET payload == Field(m.cksumType) \o Field(m.cksumValue) \o Field(m.version)
                     \o <<Len(m.copyFQN)>> \o Fields(m.copyFQN)
    IN  Magic \o <<1, Len(MetaCksum(payload))>> \o MetaCksum(payload) \o payload

\* the bytes from..to of b
Slice(b, from, to) == SubSeq(b, from, to)

\* one length-prefixed field at position at: <<the string, the next
\* position>>, or <<>> when the bytes end before the field does
ReadField(b, at) ==
    IF at > Len(b) THEN <<>>
    ELSE IF at + b[at] > Len(b) THEN <<>>
    ELSE <<Slice(b, at + 1, at + b[at]), at + b[at] + 1>>

\* count length-prefixed fields from position at: <<the list, the next
\* position>>, or <<>>
RECURSIVE ReadFields(_, _, _)
ReadFields(b, at, count) ==
    IF count = 0 THEN << <<>>, at >>
    ELSE LET f == ReadField(b, at) IN
         IF f = <<>> THEN <<>>
         ELSE LET rest == ReadFields(b, f[2], count - 1) IN
              IF rest = <<>> THEN <<>> ELSE << <<f[1]>> \o rest[1], rest[2] >>

\* faulty variant: the metadata checksum is not verified
CksumMatchesAlways(stored, payload) == TRUE

\* the stored metadata checksum against the computed one
CksumMatches(stored, payload) == stored = MetaCksum(payload)

LoadError(err) == [err |-> err, rec |-> Nil]

\* the fields after the verified checksum
UnmarshalFields(payload) ==
    LET t == ReadField(payload, 1) IN
    IF t = <<>> THEN LoadError("CorruptedMeta") ELSE
    LET v == ReadField(payload, t[2]) IN
    IF v = <<>> THEN LoadError("CorruptedMeta") ELSE
    LET o == ReadField(payload, v[2]) IN
    IF o = <<>> THEN LoadError("CorruptedMeta") ELSE
    IF o[2] > Len(payload) THEN LoadError("CorruptedMeta") ELSE
    LET c == ReadFields(payload, o[2] + 1, payload[o[2]]) IN
    IF c = <<>> THEN LoadError("CorruptedMeta") ELSE
    IF c[2] # Len(payload) + 1 THEN LoadError("CorruptedMeta") ELSE
    [err |-> "", rec |-> [cksumType |-> t[1], cksumValue |-> v[1], version |-> o[1], copyFQN |-> c[1]]]

\* LoadMetaFromFS on the bytes of the extended attribute: an error, or the
\* record
Unmarshal(b) ==
    IF Len(b) < Len(Magic) + 2 THEN LoadError("CorruptedMeta")
    ELSE IF Slice(b, 1, Len(Magic)) # Magic THEN LoadError("CorruptedMeta")
    ELSE IF b[Len(Magic) + 1] # 1 THEN LoadError("CorruptedMeta")
    ELSE LET n == b[Len(Magic) + 2]
             from == Len(Magic) + 3
         IN  IF from + n - 1 > Len(b) THEN LoadError("CorruptedMeta")
             ELSE IF ~CksumMatches(Slice(b, from, from + n - 1), Slice(b, from + n, Len(b)))
                  THEN LoadError("CorruptedMeta")
             ELSE UnmarshalFields(Slice(b, from + n, Len(b)))

\* payloads that are not a marshalled record: text, nothing, a cut header,
\* a checksum length beyond the end, a verified checksum over cut fields
Malformed ==
    { <<49, 51, 50, 49, 10, 119, 114, 59>>,
      <<>>,
      Magic,
      Magic \o <<1, 9, 0>>,
      Magic \o <<1, 2>> \o MetaCksum(<<5, 1>>) \o <<5, 1>>,
      Magic \o <<1, 2>> \o MetaCksum(<<0, 0, 0, 2, 0>>) \o <<0, 0, 0, 2, 0>>,
      Magic \o <<1, 2>> \o MetaCksum(<<0, 0, 0>>) \o <<0, 0, 0>> }

\* the positions of the bytes of the metadata checksum
CksumBytes(b) == (Len(Magic) + 3)..(Len(Magic) + 4)

\* lom.SetCksum, lom.SetVersion, lom.SetCopyFQN
SetMeta(m) ==
    /\ pl # m
    /\ pl' = m
    /\ UNCHANGED <<xa, lc, ld>>
    /\ UNCHANGED notLom

\* lom.Persist(): the marshalled record is written as one extended attribute
PersistLom ==
    /\ pl # Nil
    /\ xa.n < MaxPersists
    /\ xa' = [b |-> Marshal(pl), last |-> pl, altered |-> FALSE, n |-> xa.n + 1]
    /\ UNCHANGED <<pl, lc, ld>>
    /\ UNCHANGED notLom

\* b[i] = b[i] + 1 on a byte of the metadata checksum; fs.SetXattr
FlipCksumByte(i) ==
    /\ xa.n > 0
    /\ ~xa.altered
    /\ i \in CksumBytes(xa.b)
    /\ xa' = [xa EXCEPT !.b = [xa.b EXCEPT ![i] = (@ + 1) % 256], !.altered = TRUE]
    /\ UNCHANGED <<pl, lc, ld>>
    /\ UNCHANGED notLom

\* fs.SetXattr with a payload that is not a record
SetXattrMalformed(b) ==
    /\ xa.n > 0
    /\ xa.b # b
    /\ xa' = [xa EXCEPT !.b = b, !.altered = TRUE]
    /\ UNCHANGED <<pl, lc, ld>>
    /\ UNCHANGED notLom

\* lom.Uncache()
Uncache ==
    /\ lc # Nil
    /\ lc' = Nil
    /\ UNCHANGED <<pl, xa, ld>>
    /\ UNCHANGED notLom

\* LoadMetaFromFS() on a fresh LOM of the file: reads the attribute
LoadMetaFromFS ==
    /\ xa.n > 0
    /\ ld' = [Unmarshal(xa.b) EXCEPT !.err = @] @@ [how |-> "LoadMetaFromFS", cached |-> FALSE]
    /\ UNCHANGED <<pl, xa, lc>>
    /\ UNCHANGED notLom

\* Load() on a fresh LOM of the file: from the cache when the object is
\* cached, else from the attribute, and the loaded LOM is cached
Load ==
    /\ xa.n > 0
    /\ IF lc # Nil
       THEN /\ ld' = [err |-> "", rec |-> lc, how |-> "Load", cached |-> TRUE]
            /\ UNCHANGED lc
       ELSE /\ ld' = Unmarshal(xa.b) @@ [how |-> "Load", cached |-> FALSE]
            /\ lc' = IF Unmarshal(xa.b).err = "" THEN Unmarshal(xa.b).rec ELSE Nil
    /\ UNCHANGED <<pl, xa>>
    /\ UNCHANGED notLom

InitLom ==
    /\ pl = Nil
    /\ xa = [b |-> <<>>, last |-> Nil, altered |-> FALSE, n |-> 0]
    /\ lc = Nil
    /\ ld = [err |-> "", rec |-> Nil, how |-> "none", cached |-> FALSE]

(***************************************************************************)
(* cmn.GCO: the global config owner and SetConfigMany                      *)
(***************************************************************************)

Setters == 1..MaxSetters

\* the part of Config the updates below touch: LRUConf.LowWM and HighWM
Configs == [LowWM : 0..3, HighWM : 0..3]

\* the name/value maps SetConfigMany is called with
NvMaps ==
    { EmptyMap,
      [lowwm |-> "2"],
      [highwm |-> "1"],
      [highwm |-> "3"],
      [lowwm |-> "x"],
      [lowwm |-> "3", highwm |-> "3"],
      [lowwm |-> "2", persist |-> "true"],
      [highwm |-> "3", persist |-> "maybe"] }

\* json.Unmarshal of a value into an int64: <<ok, the number>>
ParseInt(value) ==
    IF value = "1" THEN <<TRUE, 1>>
    ELSE IF value = "2" THEN <<TRUE, 2>>
    ELSE IF value = "3" THEN <<TRUE, 3>>
    ELSE <<FALSE, 0>>

\* strconv.ParseBool: <<ok, the flag>>
ParseBool(value) ==
    IF value = "true" THEN <<TRUE, TRUE>>
    ELSE IF value = "false" THEN <<TRUE, FALSE>>
    ELSE <<FALSE, FALSE>>

\* Config.update(key, value): <<ok, the Config, the validator>>
ConfigUpdate(conf, key, value) ==
    IF ~ParseInt(value)[1] THEN <<FALSE, conf, "LRU">>
    ELSE IF key = "lowwm" THEN <<TRUE, [conf EXCEPT !.LowWM = ParseInt(value)[2]], "LRU">>
    ELSE <<TRUE, [conf EXCEPT !.HighWM = ParseInt(value)[2]], "LRU">>

\* LRUConf.Validate (OOS is not among the keys: it stays at its loaded 100)
LRUValidate(conf) == ~(conf.LowWM <= 0 \/ conf.HighWM < conf.LowWM)

\* globalConfigOwner.Clone: Config holds values only
Clone(conf) == conf

\* faulty variant: the mutex is never found locked
LockedNever(mtx) == FALSE

\* gco.mtx is held
Locked(mtx) == mtx # 0

\* the Config of init(): zero values
ZeroConfig == [LowWM |-> 0, HighWM |-> 0]

SetterIdle == [pc |-> "idle", conf |-> ZeroConfig, base |-> ZeroConfig, nvmap |-> EmptyMap,
               validators |-> {}, persist |-> FALSE, err |-> FALSE]

\* the pairs of nvmap without the one named key
Rest(nvmap, key) == [k \in DOMAIN nvmap \ {key} |-> nvmap[k]]

\* SetConfigMany with an empty map: an error before BeginUpdate
SetConfigManyEmpty(u) ==
    /\ scm[u].pc = "idle"
    /\ gco.calls < MaxSetCalls
    /\ scm' = [scm EXCEPT ![u] = [SetterIdle EXCEPT !.err = TRUE]]
    /\ gco' = [gco EXCEPT !.calls = @ + 1]
    /\ UNCHANGED got
    /\ UNCHANGED notCfg

\* SetConfigMany up to and including GCO.BeginUpdate(): mtx.Lock(), Clone()
BeginUpdate(u, nvmap) ==
    /\ scm[u].pc = "idle"
    /\ gco.calls < MaxSetCalls
    /\ DOMAIN nvmap # {}
    /\ ~Locked(gco.mtx)
    /\ gco' = [gco EXCEPT !.mtx = u, !.calls = @ + 1]
    /\ scm' = [scm EXCEPT ![u] = [SetterIdle EXCEPT !.pc = "range", !.conf = Clone(gco.c),
                                                     !.base = gco.c, !.nvmap = nvmap]]
    /\ UNCHANGED got
    /\ UNCHANGED notCfg

\* GCO.DiscardUpdate(): mtx.Unlock()
DiscardUpdate(u) ==
    /\ gco' = [gco EXCEPT !.mtx = 0]
    /\ scm' = [scm EXCEPT ![u] = [SetterIdle EXCEPT !.base = scm[u].base, !.err = TRUE]]

\* GCO.CommitUpdate(config): the pointer is stored, mtx.Unlock()
CommitUpdate(u, config) ==
    /\ gco' = [gco EXCEPT !.mtx = 0, !.c = config, !.stored = @ \cup {config}]
    /\ scm' = [scm EXCEPT ![u] = IF scm[u].persist
                                   THEN [scm[u] EXCEPT !.pc = "save"]
                                   ELSE [SetterIdle EXCEPT !.base = scm[u].base]]

\* one round of the range over nvmap, in the map's order
RangeStep(u, key) ==
    /\ scm[u].pc = "range"
    /\ key \in DOMAIN scm[u].nvmap
    /\ IF key = "persist"
       THEN IF ~ParseBool(scm[u].nvmap[key])[1]
            THEN DiscardUpdate(u)
            ELSE /\ scm' = [scm EXCEPT ![u].persist = ParseBool(scm[u].nvmap[key])[2],
                                         ![u].nvmap = Rest(scm[u].nvmap, key)]
                 /\ UNCHANGED gco
       ELSE LET r == ConfigUpdate(scm[u].conf, key, scm[u].nvmap[key]) IN
            IF ~r[1]
            THEN DiscardUpdate(u)
            ELSE /\ scm' = [scm EXCEPT ![u].conf = r[2],
                                         ![u].validators = @ \cup {r[3]},
                                         ![u].nvmap = Rest(scm[u].nvmap, key)]
                 /\ UNCHANGED gco
    /\ UNCHANGED got
    /\ UNCHANGED notCfg

\* after the range: the validators, then CommitUpdate or DiscardUpdate
ValidateAndEnd(u) ==
    /\ scm[u].pc = "range"
    /\ DOMAIN scm[u].nvmap = {}
    /\ IF "LRU" \in scm[u].validators /\ ~LRUValidate(scm[u].conf)
       THEN DiscardUpdate(u)
       ELSE CommitUpdate(u, scm[u].conf)
    /\ UNCHANGED got
    /\ UNCHANGED notCfg

\* persist: LocalSave(GCO.GetConfigFile(), GCO.Get())
LocalSave(u) ==
    /\ scm[u].pc = "save"
    /\ gco' = [gco EXCEPT !.confFile = gco.c]
    /\ scm' = [scm EXCEPT ![u] = [SetterIdle EXCEPT !.base = scm[u].base]]
    /\ UNCHANGED got
    /\ UNCHANGED notCfg

\* GCO.Get(): the atomic pointer is loaded
ConfigGet ==
    /\ got # gco.c
    /\ got' = gco.c
    /\ UNCHANGED <<gco, scm>>
    /\ UNCHANGED notCfg

\* the Config after LoadConfig
InitConfig ==
    /\ gco = [mtx |-> 0, c |-> [LowWM |-> 1, HighWM |-> 2], confFile |-> [LowWM |-> 1, HighWM |-> 2],
              stored |-> {[LowWM |-> 1, HighWM |-> 2]}, calls |-> 0]
    /\ scm = [u \in Setters |-> SetterIdle]
    /\ got = ZeroConfig

(***************************************************************************)
(* Initial states and specifications                                       *)
(***************************************************************************)

\* The bucket starts EC-enabled with no xaction yet; a request carries an
\* error channel or not.
InitECWith(errChs) ==
    /\ xacts = <<>>
    /\ put = 0
    /\ reqs = [r \in Reqs |-> [pc |-> "new", x |-> 0, hasErrCh |-> r \in errChs, err |-> "none",
                               mpath |-> <<>>, sub |-> 0, rej |-> 0, enq |-> 0, hnd |-> 0]]
    /\ ctl = [pc |-> "idle", x |-> 0, enabled |-> TRUE, hist |-> <<>>,
              bmd |-> BmdAfter(<<>>), bckMD |-> BmdAfter(<<>>), seen |-> <<TRUE>>, nmd |-> 0]
    /\ clock = 1

\* newECM: the coordinator holds the owner's cluster map and its target
\* count, is registered as a listener and has no xactions yet. The cluster
\* starts with enough targets for every bucket (ECConf.ValidateAsProps).
InitMgrWith(n) ==
    /\ smapOwner = [Version |-> 1, Tcnt |-> n]
    /\ smapHist = <<n>>
    /\ smapCh = [q |-> <<>>, closed |-> FALSE]
    /\ mgr = [smapVersion |-> 1, targetCnt |-> n, listening |-> TRUE, now |-> 1,
              mtx |-> [r |-> [g \in Gors |-> 0], w |-> "none", pending |-> {}],
              xacts |-> EmptyMap, nrec |-> 0,
              gor |-> [g \in Gors |-> [pc |-> "idle", b |-> "", xs |-> 0,
                                      todo |-> <<>>, rets |-> {}]]]
    /\ bx = [b \in Buckets |-> [put |-> Nil, get |-> Nil, req |-> Nil]]
    /\ enc = [n |-> 0, lomIn |-> Nil, lomOut |-> Nil, res |-> ""]


NextEC ==
    \/ \E r \in Reqs : SubmitRestore(r)
    \/ \E r \in Reqs : SubmitCheck(r)
    \/ \E r \in Reqs : SubmitSend(r)
    \/ \E act \in {ActClearRequests, ActEnableRequests} : CtlRestore(act)
    \/ CtlSend
    \/ \E x \in XIds : RunRequest(x)
    \/ \E x \in XIds : RunIdleTick(x, TRUE)
    \/ \E x \in XIds : RunControl(x)
    \/ \E x \in XIds : DrainRequest(x)
    \/ \E x \in XIds : DrainDone(x)
    \/ \E x \in XIds : JoggerRun(x)

\* requests with and without an error channel
InitSpecEC ==
    /\ \E errChs \in SUBSET Reqs : InitECWith(errChs)
    /\ InitMgrWith(MaxTargets)
    /\ InitMfsStarted
    /\ InitMirrorWith(1)
    /\ InitXact
    /\ InitXattr
    /\ InitGroup
    /\ InitRemote
    /\ InitLom
    /\ InitConfig

SpecEC == InitSpecEC /\ [][NextEC]_vars

\* the xaction goroutines are scheduled fairly
SpecECFair ==
    /\ SpecEC
    /\ \A x \in XIds : WF_vars(RunRequest(x) \/ RunControl(x) \/ DrainRequest(x) \/ DrainDone(x))

NextMgr ==
    \/ \E b \in Buckets, size \in ObjSizes, oos, perm, loadErr \in BOOLEAN :
           EncodeObject(b, size, oos, perm, loadErr)
    \/ \E b \in Buckets : RestoreObject(b)
    \/ \E b \in Buckets : RecvRequest(b)
    \/ \E n \in 1..MaxTargets : SmapPut(n)
    \/ SmapUnreg
    \/ ListenSmapChanged
    \/ ListenClosed

InitSpecMgr ==
    /\ InitMgrWith(MaxTargets)
    /\ InitECWith({})
    /\ InitMfs
    /\ InitMirrorWith(1)
    /\ InitXact
    /\ InitXattr
    /\ InitGroup
    /\ InitRemote
    /\ InitLom
    /\ InitConfig

SpecMgr == InitSpecMgr /\ [][NextMgr]_vars

NextMfs ==
    \/ \E mpath \in MpathInputs, fsOk \in BOOLEAN : Add(mpath, fsOk)
    \/ \E mpath \in MpathInputs : Remove(mpath)
    \/ \E mpath \in MpathInputs : Enable(mpath)
    \/ \E mpath \in MpathInputs : Disable(mpath)
    \/ DisableFsIDCheck
    \/ updatePathsDisabled
    \/ updatePathsXattr

InitSpecMfs ==
    /\ InitMfs
    /\ InitMirrorWith(1)
    /\ InitXact
    /\ InitXattr
    /\ InitGroup
    /\ InitRemote
    /\ InitLom
    /\ InitConfig
    /\ InitECWith({})
    /\ InitMgrWith(MaxTargets)

SpecMfs == InitSpecMfs /\ [][NextMfs]_vars

\* The mountpath manager with a reader: a goroutine calls Get() while
\* others add, remove, enable and disable mountpaths (the fsid check stays on).
NextMfsGet ==
    \/ \E mpath \in GetInputs : Add(mpath, TRUE)
    \/ \E mpath \in GetInputs : Remove(mpath)
    \/ \E mpath \in GetInputs : Enable(mpath)
    \/ \E mpath \in GetInputs : Disable(mpath)
    \/ updatePathsDisabled
    \/ updatePathsXattr
    \/ GetLoadAvailable
    \/ GetLoadDisabled

InitSpecMfsGet ==
    /\ InitMfs
    /\ InitMirrorWith(1)
    /\ InitXact
    /\ InitXattr
    /\ InitGroup
    /\ InitRemote
    /\ InitLom
    /\ InitConfig
    /\ InitECWith({})
    /\ InitMgrWith(MaxTargets)

SpecMfsGet == InitSpecMfsGet /\ [][NextMfsGet]_vars

\* The mountpath manager with a caller of MpathForXattr: a goroutine asks
\* for the metadata mountpath while others add, remove, enable and disable
\* mountpaths (the fsid check stays on).
NextMfsXattr ==
    \/ \E mpath \in GetInputs : Add(mpath, TRUE)
    \/ \E mpath \in GetInputs : Remove(mpath)
    \/ \E mpath \in GetInputs : Enable(mpath)
    \/ \E mpath \in GetInputs : Disable(mpath)
    \/ updatePathsDisabled
    \/ updatePathsXattr
    \/ MpathForXattrFast
    \/ MpathForXattrSlow
    \/ MpathForXattrStore

InitSpecMfsXattr ==
    /\ InitMfs
    /\ InitMirrorWith(1)
    /\ InitXact
    /\ InitXattr
    /\ InitGroup
    /\ InitRemote
    /\ InitLom
    /\ InitConfig
    /\ InitECWith({})
    /\ InitMgrWith(MaxTargets)

SpecMfsXattr == InitSpecMfsXattr /\ [][NextMfsXattr]_vars

\* The fsprungroup of a started target: one caller at a time adds, removes,
\* enables and disables mountpaths.
NextGroup ==
    \/ \E mpath \in GroupInputs : addMountpath(1, mpath)
    \/ \E mpath \in GroupInputs : removeMountpath(1, mpath)
    \/ \E mpath \in GroupInputs : enableMountpath(1, mpath)
    \/ \E mpath \in GroupInputs : disableMountpath(1, mpath)
    \/ updatePathsDisabled
    \/ updatePathsXattr
    \/ \E created \in BOOLEAN : CreateBucketDir(1, created)
    \/ NotifyRunners(1)
    \/ GroupGet(1)
    \/ checkNoMountpaths(1)
    \/ TargetEnable(1)
    \/ TargetDisable(1)

InitSpecGroup ==
    /\ InitMfsStarted
    /\ InitMirrorWith(1)
    /\ InitXact
    /\ InitXattr
    /\ InitGroup
    /\ InitRemote
    /\ InitLom
    /\ InitConfig
    /\ InitECWith({})
    /\ InitMgrWith(MaxTargets)

SpecGroup == InitSpecGroup /\ [][NextGroup]_vars

\* Restores read slices from other targets: concurrent callers of
\* readRemote, and the handler that receives the responses.
NextRemote ==
    \/ \E c \in Readers, uname \in Unames : readRemote(c, uname)
    \/ \E c \in Readers, sent \in BOOLEAN : readRemoteSend(c, sent)
    \/ \E c \in Readers : readRemoteTimeout(c)
    \/ \E c \in Readers : readRemoteDone(c)
    \/ \E c \in Readers, exists \in BOOLEAN, attrs \in ObjAttrs : ResponseArrives(c, exists, attrs)
    \/ \E c \in Readers : writerReceive(c)
    \/ \E c \in Readers : writerReceiveEnd(c)

InitSpecRemote ==
    /\ InitMfs
    /\ InitMirrorWith(1)
    /\ InitXact
    /\ InitXattr
    /\ InitGroup
    /\ InitRemote
    /\ InitLom
    /\ InitConfig
    /\ InitECWith({})
    /\ InitMgrWith(MaxTargets)

SpecRemote == InitSpecRemote /\ [][NextRemote]_vars

\* One object file: its LOM is given values and persisted, the attribute is
\* altered behind its back, fresh LOMs load it.
NextLom ==
    \/ \E m \in Metas : SetMeta(m)
    \/ PersistLom
    \/ \E i \in 1..Len(xa.b) : FlipCksumByte(i)
    \/ \E b \in Malformed : SetXattrMalformed(b)
    \/ Uncache
    \/ LoadMetaFromFS
    \/ Load

InitSpecLom ==
    /\ InitMfs
    /\ InitMirrorWith(1)
    /\ InitXact
    /\ InitXattr
    /\ InitGroup
    /\ InitRemote
    /\ InitLom
    /\ InitConfig
    /\ InitECWith({})
    /\ InitMgrWith(MaxTargets)

SpecLom == InitSpecLom /\ [][NextLom]_vars

\* Concurrent callers of SetConfigMany and readers of the Config.
NextConfig ==
    \/ \E u \in Setters : SetConfigManyEmpty(u)
    \/ \E u \in Setters, nvmap \in NvMaps : BeginUpdate(u, nvmap)
    \/ \E u \in Setters, key \in {"lowwm", "highwm", "persist"} : RangeStep(u, key)
    \/ \E u \in Setters : ValidateAndEnd(u)
    \/ \E u \in Setters : LocalSave(u)
    \/ ConfigGet

InitSpecConfig ==
    /\ InitMfs
    /\ InitMirrorWith(1)
    /\ InitXact
    /\ InitXattr
    /\ InitGroup
    /\ InitRemote
    /\ InitLom
    /\ InitConfig
    /\ InitECWith({})
    /\ InitMgrWith(MaxTargets)

SpecConfig == InitSpecConfig /\ [][NextConfig]_vars

NextMirror ==
    \/ \E cands \in SUBSET Mpaths : FindLeastUtilized(cands)
    \/ \E outcome \in CopyOutcomes, removeOk \in BOOLEAN : addCopy(outcome, removeOk)
    \/ \E mpath \in Mpaths, u \in UtilLevels : SetDiskUtil(mpath, u)
    \/ \E mpath \in Mpaths : MpathRemoved(mpath)

InitSpecMirror ==
    /\ InitMirrorWith(1)
    /\ InitXact
    /\ InitXattr
    /\ InitGroup
    /\ InitRemote
    /\ InitLom
    /\ InitConfig
    /\ InitECWith({})
    /\ InitMgrWith(MaxTargets)
    /\ InitMfs

SpecMirror == InitSpecMirror /\ [][NextMirror]_vars

\* One bucket's Put xaction with requests, idle ticks, Renew and Abort
NextXact ==
    \/ \E r \in Reqs : SubmitRestore(r)
    \/ \E r \in Reqs : SubmitCheck(r)
    \/ \E r \in Reqs : SubmitSend(r)
    \/ \E x \in XIds : RunRequest(x)
    \/ \E x \in XIds : JoggerRun(x)
    \/ \E x \in XIds : RunIdle(x)
    \/ \E x \in XIds : Renew(x)
    \/ \E x \in XIds : RunAbort(x)
    \/ \E a \in Aborters, x \in XIds : AbortSwap(a, x)
    \/ \E a \in Aborters : AbortStore(a)
    \/ \E a \in Aborters : AbortClose(a)

InitSpecXact ==
    /\ InitECWith({})
    /\ InitMgrWith(MaxTargets)
    /\ InitMfsStarted
    /\ InitMirrorWith(1)
    /\ InitXact
    /\ InitXattr
    /\ InitGroup
    /\ InitRemote
    /\ InitLom
    /\ InitConfig

SpecXact == InitSpecXact /\ [][NextXact]_vars

\* One bucket's Put xaction as a runner of the fsprungroup: requests for
\* objects on the available mountpaths, while mountpaths are added and
\* removed.
\* the mountpaths the group is called with while the xaction runs
PutInputs == {<<"a">>, <<"c">>}

NextPut ==
    \/ \E r \in Reqs : SubmitRestore(r)
    \/ \E r \in Reqs : SubmitCheck(r)
    \/ \E r \in Reqs : SubmitSend(r)
    \/ \E x \in XIds : RunRequest(x)
    \/ \E x \in XIds : RunMpath(x)
    \/ \E x \in XIds : JoggerRun(x)
    \/ \E mpath \in PutInputs : addMountpath(1, mpath)
    \/ \E mpath \in PutInputs : removeMountpath(1, mpath)
    \/ updatePathsDisabled
    \/ updatePathsXattr
    \/ \E created \in BOOLEAN : CreateBucketDir(1, created)
    \/ NotifyRunners(1)
    \/ GroupGet(1)
    \/ checkNoMountpaths(1)
    \/ TargetEnable(1)
    \/ TargetDisable(1)

InitSpecPut ==
    /\ InitECWith({})
    /\ InitMgrWith(MaxTargets)
    /\ InitMfsStarted
    /\ InitMirrorWith(1)
    /\ InitXact
    /\ InitXattr
    /\ InitGroup
    /\ InitRemote
    /\ InitLom
    /\ InitConfig

SpecPut == InitSpecPut /\ [][NextPut]_vars

\* Two running Put xactions as runners of the fsprungroup, no requests:
\* one caller at a time adds, removes, enables and disables mountpaths, and
\* the loops take the mountpath requests.
InitRunners ==
    /\ xacts = << [NewPutXact EXCEPT !.putJoggers = {<<"c">>}],
                  [NewPutXact EXCEPT !.putJoggers = {<<"c">>}] >>
    /\ put = 1
    /\ reqs = [r \in Reqs |-> [pc |-> "new", x |-> 0, hasErrCh |-> FALSE, err |-> "none",
                               mpath |-> <<>>, sub |-> 0, rej |-> 0, enq |-> 0, hnd |-> 0]]
    /\ ctl = [pc |-> "idle", x |-> 0, enabled |-> TRUE, hist |-> <<>>,
              bmd |-> BmdAfter(<<>>), bckMD |-> BmdAfter(<<>>), seen |-> <<TRUE>>, nmd |-> 0]
    /\ clock = 1

NextNotify ==
    \/ \E mpath \in PutInputs : addMountpath(1, mpath)
    \/ \E mpath \in PutInputs : removeMountpath(1, mpath)
    \/ \E mpath \in PutInputs : enableMountpath(1, mpath)
    \/ \E mpath \in PutInputs : disableMountpath(1, mpath)
    \/ updatePathsDisabled
    \/ updatePathsXattr
    \/ \E created \in BOOLEAN : CreateBucketDir(1, created)
    \/ NotifyRunners(1)
    \/ GroupGet(1)
    \/ checkNoMountpaths(1)
    \/ TargetEnable(1)
    \/ TargetDisable(1)
    \/ \E x \in XIds : RunMpath(x)

InitSpecNotify ==
    /\ InitMfsStarted
    /\ InitRunners
    /\ InitMgrWith(MaxTargets)
    /\ InitMirrorWith(1)
    /\ InitXact
    /\ InitXattr
    /\ InitGroup
    /\ InitRemote
    /\ InitLom
    /\ InitConfig

SpecNotify == InitSpecNotify /\ [][NextNotify]_vars

\* The fsprungroup of a started target under concurrent callers (one
\* goroutine per HTTP request); no runner is registered.
NextGroupConc ==
    \/ \E c \in Callers, mpath \in PutInputs : addMountpath(c, mpath)
    \/ \E c \in Callers, mpath \in PutInputs : removeMountpath(c, mpath)
    \/ \E c \in Callers, mpath \in PutInputs : enableMountpath(c, mpath)
    \/ \E c \in Callers, mpath \in PutInputs : disableMountpath(c, mpath)
    \/ updatePathsDisabled
    \/ updatePathsXattr
    \/ \E c \in Callers, created \in BOOLEAN : CreateBucketDir(c, created)
    \/ \E c \in Callers : NotifyRunners(c)
    \/ \E c \in Callers : GroupGet(c)
    \/ \E c \in Callers : checkNoMountpaths(c)
    \/ \E c \in Callers : TargetEnable(c)
    \/ \E c \in Callers : TargetDisable(c)

SpecGroupConc == InitSpecGroup /\ [][NextGroupConc]_vars

\* One bucket under changes of the bucket metadata: versions arrive that
\* enable and disable EC for it, BucketsMDChanged is called, requests are
\* submitted and the Put xactions run.
NextBmd ==
    \/ SubmitRestore(1)
    \/ SubmitCheck(1)
    \/ SubmitSend(1)
    \/ \E enabled \in BOOLEAN : BmdPut(enabled)
    \/ BucketsMDChanged
    \/ CtlSend
    \/ \E x \in XIds : RunRequest(x)
    \/ \E x \in XIds : RunControl(x)
    \/ \E x \in XIds : DrainRequest(x)
    \/ \E x \in XIds : DrainDone(x)

InitSpecBmd ==
    /\ InitECWith({1})
    /\ InitMgrWith(MaxTargets)
    /\ InitMfsStarted
    /\ InitMirrorWith(1)
    /\ InitXact
    /\ InitXattr
    /\ InitGroup
    /\ InitRemote
    /\ InitLom
    /\ InitConfig

SpecBmd == InitSpecBmd /\ [][NextBmd]_vars

\* The manager's mutex and map under concurrent goroutines: one pass of
\* ListenSmapChanged over the buckets, one BucketsMDChanged, and two callers
\* of getBckXacts.
NextLock ==
    \/ ListenRLock
    \/ ListenGet
    \/ ListenRUnlock
    \/ \E g \in Getters, b \in Buckets : GetCall(g, b)
    \/ \E g \in Gors : getBckXactsRLock(g)
    \/ \E g \in Gors : getBckXactsLookup(g)
    \/ \E g \in Gors : getBckXactsStore(g)
    \/ \E g \in Gors : getBckXactsReturn(g)
    \/ MDLock
    \/ MDLocked
    \/ MDUnlock

SpecLock == InitSpecMgr /\ [][NextLock]_vars

\* One bucket's Put xaction under Abort. It starts with requests, control
\* messages and a mountpath notification in its channels.
NextAbort ==
    \/ \E x \in XIds : RunRequest(x)
    \/ \E x \in XIds : RunMpath(x)
    \/ \E x \in XIds : RunIdleTick(x, TRUE)
    \/ \E x \in XIds : RunControl(x)
    \/ \E x \in XIds : DrainRequest(x)
    \/ \E x \in XIds : DrainDone(x)
    \/ \E x \in XIds : RunAbort(x)
    \/ \E x \in XIds : JoggerRun(x)
    \/ \E a \in Aborters, x \in XIds : AbortSwap(a, x)
    \/ \E a \in Aborters : AbortStore(a)
    \/ \E a \in Aborters : AbortClose(a)

\* the control messages sent so far: none, disableBck, disableBck and enableBck
ControlSent == {<<>>, <<ActClearRequests>>, <<ActClearRequests, ActEnableRequests>>}

\* the state after: the requests of queued were submitted and sent, the
\* coordinator sent the messages of sent, and (added) addMountpath("a")
\* went through and notified the xaction; the loop has taken nothing yet
InitECQueued(queued, sent, added) ==
    /\ xacts = << [NewPutXact EXCEPT
                     !.ecCh = queued,
                     !.controlCh = [i \in DOMAIN sent |-> [Action |-> sent[i], seq |-> i]],
                     !.nctl = Len(sent),
                     !.atCall = IF sent = <<>> THEN {} ELSE Range(queued),
                     !.putJoggers = {<<"c">>},
                     !.mpathReqCh = IF added THEN << [action |-> "add", mpath |-> <<"a">>] >>
                                    ELSE <<>>] >>
    /\ put = 1
    /\ reqs = [r \in Reqs |->
                 IF r \in Range(queued)
                 THEN [pc |-> "queued", x |-> 1, hasErrCh |-> FALSE, err |-> "none",
                       mpath |-> <<"c">>, sub |-> 0, rej |-> 0, enq |-> 0, hnd |-> 0]
                 ELSE [pc |-> "new", x |-> 0, hasErrCh |-> FALSE, err |-> "none",
                       mpath |-> <<>>, sub |-> 0, rej |-> 0, enq |-> 0, hnd |-> 0]]
    /\ ctl = [pc |-> "idle", x |-> IF sent = <<>> THEN 0 ELSE 1,
              enabled |-> Len(sent) # 1, hist |-> sent,
              bmd |-> BmdAfter(sent), bckMD |-> BmdAfter(sent),
              seen |-> [i \in 1..(Len(sent) + 1) |-> i % 2 = 1], nmd |-> Len(sent)]
    /\ clock = 1

\* the mountpath manager and the group after addMountpath("a") on a started
\* target
InitMfsAdded ==
    LET a == newMountpath(<<"a">>, Statfs(<<"a">>), Fqn2fsAtStartup(<<"a">>))
        c == newMountpath(<<"c">>, Statfs(<<"c">>), Fqn2fsAtStartup(<<"c">>))
    IN
    /\ available = MapPut(MapPut(EmptyMap, c.Path, c), a.Path, a)
    /\ disabled = EmptyMap
    /\ fsIDs = AddFsID(AddFsID(EmptyMap, c, <<"c">>), a, <<"a">>)
    /\ checkFsID = TRUE
    /\ xattrMpath = Nil
    /\ iostats = {c.Path, a.Path}
    /\ mfsMu = Nil
    /\ mfsRet = [op |-> "Add", mpath |-> <<"a">>, err |-> ""]
    /\ rd = [pc |-> "idle", available |-> EmptyMap, disabled |-> EmptyMap, reg |-> {}]
    /\ tgt = [registered |-> TRUE]
    /\ grp = [k \in Callers |->
                IF k = 1
                THEN [pc |-> "idle", op |-> "add", ok |-> TRUE, before |-> 1, n |-> 2,
                      mpath |-> <<"a">>, told |-> <<1>>, was |-> <<{c.Path}, {}>>, ran |-> {1}]
                ELSE [pc |-> "idle", op |-> "none", ok |-> FALSE, before |-> 0, n |-> 0,
                      mpath |-> <<>>, told |-> <<>>, was |-> <<{}, {}>>, ran |-> {}]]

InitSpecAbort ==
    /\ \E queued \in {<<>>, <<1>>, <<1, 2>>}, sent \in ControlSent, added \in BOOLEAN :
         /\ IF added THEN InitMfsAdded ELSE InitMfsStarted /\ InitGroup
         /\ InitECQueued(queued, sent, added)
    /\ InitMgrWith(MaxTargets)
    /\ InitMirrorWith(1)
    /\ InitXact
    /\ InitXattr
    /\ InitRemote
    /\ InitLom
    /\ InitConfig

SpecAbort == InitSpecAbort /\ [][NextAbort]_vars

\* the select of the loop takes a case that stays ready, and the drain loop
\* goes on
SpecAbortFair ==
    /\ SpecAbort
    /\ \A x \in XIds : WF_vars(RunAbort(x))
    /\ \A x \in XIds : WF_vars(DrainRequest(x) \/ DrainDone(x))

\* ListenSmapChanged on a target count below the encode requirement:
\* bckXacts.StopPut() on the bucket's running Put xaction
ListenStopPut(x) ==
    /\ x <= Len(xacts)
    /\ x = put
    /\ ~Finished(xacts[x])
    /\ xacts' = [xacts EXCEPT ![x] = StopPut([put |-> xacts[x]], clock).put]
    /\ clock' = clock + 1
    /\ UNCHANGED <<put, reqs, ctl>>
    /\ UNCHANGED notEC

\* One bucket's Put xaction under StopPut. It starts as under Abort, with
\* requests, control messages and a mountpath notification in its channels.
NextStop ==
    \/ \E x \in XIds : RunRequest(x)
    \/ \E x \in XIds : RunMpath(x)
    \/ \E x \in XIds : RunIdleTick(x, TRUE)
    \/ \E x \in XIds : RunControl(x)
    \/ \E x \in XIds : DrainRequest(x)
    \/ \E x \in XIds : DrainDone(x)
    \/ \E x \in XIds : JoggerRun(x)
    \/ \E x \in XIds : ListenStopPut(x)

SpecStop == InitSpecAbort /\ [][NextStop]_vars

\* the select of the loop takes a case that stays ready, the drain loop
\* goes on, and the joggers work
SpecStopFair ==
    /\ SpecStop
    /\ \A x \in XIds : WF_vars(RunRequest(x))
    /\ \A x \in XIds : WF_vars(RunMpath(x))
    /\ \A x \in XIds : WF_vars(RunIdleTick(x, TRUE))
    /\ \A x \in XIds : WF_vars(RunControl(x))
    /\ \A x \in XIds : WF_vars(DrainRequest(x) \/ DrainDone(x))
    /\ \A x \in XIds : WF_vars(JoggerRun(x))

NextDemand ==
    \/ DemRenew
    \/ DemIncPending
    \/ DemDecPending
    \/ DemTimeout

InitSpecDemand ==
    /\ InitECWith({})
    /\ InitMgrWith(MaxTargets)
    /\ InitMfs
    /\ InitMirrorWith(1)
    /\ InitXact
    /\ InitXattr
    /\ InitGroup
    /\ InitRemote
    /\ InitLom
    /\ InitConfig

SpecDemand == InitSpecDemand /\ [][NextDemand]_vars

(***************************************************************************)
(* Claims about the EC Put xaction                                         *)
(***************************************************************************)

Created == 1..Len(xacts)
Handled(r) == reqs[r].pc \in {"jogger", "encoded", "drained", "refused"}
Enqueued(r) == reqs[r].pc = "queued" \/ Handled(r)

\* C1 as stated: a request that was pending in the request channel when
\* ClearRequests was called is never handed to a jogger.
C1_PendingAtCallNeverJogged ==
    \A x \in Created : \A r \in xacts[x].atCall : reqs[r].pc \notin {"jogger", "encoded"}

C1_DrainSafe ==
    \A x \in Created :
      /\ xacts[x].clearSeq > 0 => xacts[x].pc \in {"drain", "done"}
      /\ \A r \in xacts[x].atProc :
           /\ reqs[r].pc \in {"queued", "drained"}
           /\ reqs[r].pc = "drained" /\ reqs[r].hasErrCh => reqs[r].err = "ECdisabled"
           /\ xacts[x].pc = "done" => reqs[r].pc = "drained"

\* C1 (amended): every request that is pending in the request channel when
\* the Run loop takes the ClearRequests message off the control channel is
\* never handed to a jogger and, when it carries an error channel, is
\* resolved with the EC-disabled error on it; the loop, once it drains,
\* terminates and never returns to its select.
C1_DrainAtProcessing ==
    /\ []C1_DrainSafe
    /\ \A x \in XIds :
         (x \in Created /\ xacts[x].pc = "drain") ~> (x \in Created /\ xacts[x].pc = "done")

\* C1 witness: a loop that terminated after draining a request with an error
\* channel, which got the error.
C1_Witness ==
    \E x \in Created : \E r \in xacts[x].atProc :
        /\ xacts[x].pc = "done"
        /\ reqs[r].hasErrCh
        /\ reqs[r].err = "ECdisabled"

\* C2: no request submitted after EnableRequests was called (and before any
\* later ClearRequests call) is rejected with the EC-disabled error.
C2_NoRejectAfterEnable ==
    \A r \in Reqs :
        ~ /\ reqs[r].pc \in {"rejected", "drained"}
          /\ reqs[r].hasErrCh
          /\ reqs[r].err = "ECdisabled"
          /\ reqs[r].sub > 0
          /\ ctl.hist[reqs[r].sub] = ActEnableRequests
          /\ Len(ctl.hist) = reqs[r].sub

\* C3 as stated: control messages and requests are handled in the order in
\* which they were enqueued: when a request is handled the loop has taken
\* exactly the control messages that were sent before the request.
C3_FifoWithRequests ==
    \A r \in Reqs : Handled(r) => reqs[r].hnd = reqs[r].enq

\* C3 (amended): the control messages of one xaction are processed in the
\* order in which they were sent, and a request enqueued before a
\* ClearRequests message has been handled (dispatched or failed) by the time
\* the loop terminates from that message; a request is not otherwise ordered
\* with respect to control messages.
C3_ControlFifo ==
    \A x \in Created :
      /\ \A i \in 1..Len(xacts[x].controlCh) :
             xacts[x].controlCh[i].seq = xacts[x].ctlDone + i
      /\ \A r \in Reqs :
             /\ xacts[x].pc = "done"
             /\ xacts[x].clearSeq > 0
             /\ reqs[r].x = x
             /\ Enqueued(r)
             /\ reqs[r].enq < xacts[x].clearSeq
             => Handled(r)

\* C3 witness: a request enqueued before the clear message was drained by it,
\* and a later control message of the same xaction is still in the channel.
C3_Witness ==
    \E x \in Created : \E r \in Reqs :
        /\ xacts[x].pc = "done"
        /\ xacts[x].clearSeq > 0
        /\ reqs[r].x = x
        /\ reqs[r].pc = "drained"
        /\ reqs[r].enq < xacts[x].clearSeq
        /\ xacts[x].controlCh # <<>>

(***************************************************************************)
(* Claims about the EC coordinator                                         *)
(***************************************************************************)

EncodeCalled == enc'.n # enc.n
EncConf == LBmap[enc'.lomIn.Bucket]
EncRefused ==
    /\ enc'.res = "ErrorInsufficientTargets"
    /\ bx' = bx
    /\ enc'.lomOut = enc'.lomIn

\* C4 as stated: for every object of an EC-enabled bucket, EncodeObject
\* called with the cached target count below DataSlices + ParitySlices + 1
\* returns InsufficientTargets, queues nothing and leaves the LOM unchanged.
C4_RefusedForEveryObject ==
    [][ EncodeCalled
        /\ EncConf.Enabled
        /\ mgr.targetCnt < EncConf.DataSlices + EncConf.ParitySlices + 1
        => EncRefused ]_vars

\* C4 (amended): for every object of an EC-enabled bucket that is not small
\* enough to be replicated instead of split (IsECCopy is false), EncodeObject
\* called with the cached target count below DataSlices + ParitySlices + 1
\* returns InsufficientTargets, queues nothing and leaves the LOM unchanged.
C4_RefusedForSplitObjects ==
    [][ EncodeCalled
        /\ EncConf.Enabled
        /\ ~IsECCopy(enc'.lomIn.Size, EncConf)
        /\ mgr.targetCnt < EncConf.DataSlices + EncConf.ParitySlices + 1
        => EncRefused ]_vars

\* C4 witness: EncodeObject refused a large object of an EC-enabled bucket
\* after the target count dropped below the requirement.
C4_Witness ==
    /\ enc.n > 0
    /\ enc.res = "ErrorInsufficientTargets"
    /\ LBmap[enc.lomIn.Bucket].Enabled
    /\ mgr.targetCnt < RequiredEncodeTargets(LBmap[enc.lomIn.Bucket])
    /\ mgr.smapVersion > 1

Listened == smapCh.q # <<>> /\ smapCh'.q = Tail(smapCh.q)
ListenedNewer == Listened /\ Head(smapCh.q) > mgr.smapVersion
ListenedStale == Listened /\ Head(smapCh.q) <= mgr.smapVersion

\* what ListenSmapChanged leaves behind for target count cnt
AfterListen(cnt) ==
    /\ mgr'.targetCnt = cnt
    /\ \A b \in Buckets :
         /\ IF cnt < RequiredEncodeTargets(LBmap[b])
            THEN NeedsRenew(bx'[b].put)
            ELSE bx'[b].put = bx[b].put
         /\ IF cnt < RequiredRestoreTargets(LBmap[b])
            THEN NeedsRenew(bx'[b].get)
            ELSE bx'[b].get = bx[b].get
         /\ bx'[b].req = bx[b].req

RespondNeverStopped ==
    \A b \in Buckets : ~NeedsRenew(bx[b].req) => ~NeedsRenew(bx'[b].req)

\* C5 as stated: processing a version newer than the current one leaves the
\* cached target count equal to the target count of the map of that version,
\* with the Put/Get xactions stopped accordingly.
C5_CountOfNotifiedMap ==
    [][ ListenedNewer => AfterListen(smapHist[Head(smapCh.q)]) ]_vars

\* C5 (amended): after the coordinator processes a cluster-map version newer
\* than its current one, the cached target count equals the target count of
\* the map the smap owner holds at that moment (its version is at least the
\* notified one); the Put xaction of each bucket whose encode requirement
\* exceeds that count is stopped, the Get xaction of each bucket whose restore
\* requirement exceeds it is stopped, the others keep running, and no Respond
\* xaction is ever stopped; a version not newer than the current one changes
\* nothing.
C5_CountOfCurrentMap ==
    [][ /\ ListenedNewer => AfterListen(smapOwner.Tcnt) /\ mgr'.smapVersion >= Head(smapCh.q)
        /\ ListenedStale => mgr' = mgr /\ bx' = bx
        /\ RespondNeverStopped ]_vars

\* C5 witness: a newer map with two targets was processed; bucket b1 (which
\* needs three to encode, two to restore) has its Put xaction stopped while
\* its Get and Respond xactions run.
C5_Witness ==
    /\ mgr.smapVersion > 1
    /\ mgr.targetCnt = 2
    /\ bx["b1"].put # Nil /\ NeedsRenew(bx["b1"].put)
    /\ ~NeedsRenew(bx["b1"].get)
    /\ ~NeedsRenew(bx["b1"].req)

(***************************************************************************)
(* Claims about the mountpath manager                                      *)
(***************************************************************************)

\* the MountpathInfo records of the registered mountpaths
RegisteredInfos ==
    {available[k] : k \in DOMAIN available} \cup {disabled[k] : k \in DOMAIN disabled}

\* no two registered mountpaths share a filesystem identifier
FsidUnique ==
    \A m1, m2 \in RegisteredInfos : m1.Fsid = m2.Fsid => m1.Path = m2.Path

\* this step is an Add call that passes the checks made before the lock
\* while another registered path has the file system of its argument
AddOnTakenFsid ==
    /\ mfsRet' # mfsRet
    /\ mfsRet'.op = "Add"
    /\ mfsRet'.err \notin {"suffix", "contains", "does not exist", "cannot statfs"}
    /\ \E m \in RegisteredInfos :
           m.Fsid = Statfs(mfsRet'.mpath) /\ m.Path # Clean(mfsRet'.mpath)

\* C6: while the fsid check is enabled no two registered mountpaths
\* (available or disabled) share a filesystem identifier, and an Add of a
\* path whose filesystem identifier is registered by another path returns an
\* error and leaves the available and the disabled map unchanged.
C6_FsidUniqueness ==
    /\ [](checkFsID => FsidUnique)
    /\ [][(checkFsID /\ AddOnTakenFsid) =>
             (mfsRet'.err # "" /\ available' = available /\ disabled' = disabled)]_vars

\* "/b" was refused because "/a", of the same file system, is registered
C6_Witness ==
    /\ checkFsID
    /\ mfsRet # Nil
    /\ mfsRet.op = "Add"
    /\ mfsRet.mpath = <<"b">>
    /\ mfsRet.err = "same fsid"
    /\ <<"a">> \in DOMAIN disabled
    /\ <<"c">> \in DOMAIN available

\* C7: a Get() that ran concurrently with Add/Remove/Enable/Disable returns
\* a pair in which no mountpath is in both maps and in which every
\* mountpath that stayed registered during the call is in one of the maps.
C7_GetConsistentPair ==
    rd.pc = "done" =>
        /\ DOMAIN rd.available \cap DOMAIN rd.disabled = {}
        /\ rd.reg \subseteq DOMAIN rd.available \cup DOMAIN rd.disabled

(***************************************************************************)
(* Claims about the mirror                                                 *)
(***************************************************************************)

\* the mountpaths that hold a file of the object
ObjectMpaths == {fqn[1] : fqn \in {f \in DOMAIN disk : f[2] = "obj"}}

\* fqn is an existing file on another mountpath than the primary's whose
\* own LOM lists the primary
IsCopyOfPrimary(fqn) ==
    /\ fqn \in DOMAIN disk
    /\ fqn[1] # lom.ParsedMpath
    /\ disk[fqn].has
    /\ lom.FQN \in Range(disk[fqn].copyFQN)

\* the copy lists of the primary: in memory, in the cache, on disk
PrimaryCopyLists == {lom.copyFQN, lomCache.copyFQN, disk[lom.FQN].copyFQN}

\* C8: after every outcome of copyTo each entry of the primary's copy list,
\* in memory, in the cache and on disk, is an existing file on a different
\* mountpath whose own LOM lists the primary's FQN.
C8_CopyListAfterEveryOutcome ==
    mir.op = "copyTo" =>
        \A list \in PrimaryCopyLists : \A fqn \in Range(list) : IsCopyOfPrimary(fqn)

\* C9: after a successful copyTo on a primary without copies the object is
\* on exactly two distinct mountpaths, the primary's persisted list contains
\* the copy's FQN and the copy's persisted list is exactly the primary's FQN.
C9_SymmetricCopies ==
    (mir.op = "copyTo" /\ mir.outcome = "ok" /\ mir.before = <<>>) =>
        LET cpyFQN == FQN(mir.dest, "obj") IN
        /\ Cardinality(ObjectMpaths) = 2
        /\ ObjectMpaths = {lom.ParsedMpath, mir.dest}
        /\ mir.dest # lom.ParsedMpath
        /\ disk[lom.FQN].has
        /\ cpyFQN \in Range(disk[lom.FQN].copyFQN)
        /\ disk[cpyFQN].has
        /\ disk[cpyFQN].copyFQN = <<lom.FQN>>

\* a first copy was made while the target had three mountpaths
C9_Witness ==
    /\ mir.op = "copyTo"
    /\ mir.outcome = "ok"
    /\ mir.before = <<>>
    /\ mirMpaths = Mpaths
    /\ Cardinality(ObjectMpaths) = 2

\* every copy FQN of the LOM parses
WellFormed == \A cpyfqn \in Range(lom.copyFQN) : FQN2Info(cpyfqn).ok

\* the candidates that host neither the primary nor a copy
Eligible(cands) ==
    {j \in cands : j # lom.ParsedMpath /\ \A cpyfqn \in Range(lom.copyFQN) : cpyfqn[1] # j}

\* C10: for a LOM whose copy FQNs are well-formed findLeastUtilized returns
\* a candidate that hosts neither the primary nor a copy and whose disk
\* utilization is the minimum over all such candidates, and it returns
\* nothing iff there is no such candidate.
C10_LeastUtilized ==
    (mir.op = "find" /\ WellFormed) =>
        IF Eligible(mir.cands) = {} THEN mir.out = 0
        ELSE /\ mir.out \in Eligible(mir.cands)
             /\ \A j \in Eligible(mir.cands) : dutil[mir.out] <= dutil[j]

\* two candidates host neither the primary nor a copy and the busier one loses
C10_Witness ==
    /\ mir.op = "find"
    /\ WellFormed
    /\ mir.cands = Mpaths
    /\ mir.out # 0
    /\ \E j \in Eligible(mir.cands) : dutil[mir.out] < dutil[j]

(***************************************************************************)
(* Claims about Abort, the terminal states and the idle timeout            *)
(***************************************************************************)

\* this step is the return of an Abort() call of a that lost the CAS
AbortLost(a) ==
    /\ ab[a].pc = "idle"
    /\ ab'[a].pc = "idle"
    /\ ab'[a].calls = ab[a].calls + 1

\* C11: however many Abort() calls are made on an xaction, one after the
\* other or concurrently, its abort channel is closed at most once, it is
\* closed once every call has returned, and a call that is not the first
\* leaves the aborted flag and the end-time as they are.
C11_AbortClosesOnce ==
    /\ [](\A x \in Created : xacts[x].abrtClosed <= 1)
    /\ [](\A x \in Created :
            (xacts[x].aborted /\ \A a \in Aborters : ab[a].pc = "idle")
                => xacts[x].abrtClosed = 1)
    /\ [][\A a \in Aborters : AbortLost(a) =>
             /\ xacts'[ab'[a].x].aborted = xacts[ab'[a].x].aborted
             /\ xacts'[ab'[a].x].eutime = xacts[ab'[a].x].eutime]_vars

\* two calls on one xaction have returned: one closed the channel, the
\* other found the xaction aborted
C11_Witness ==
    \E a1, a2 \in Aborters :
        /\ ab[a1].calls = 1 /\ ab[a1].won /\ ab[a1].pc = "idle"
        /\ ab[a2].calls = 1 /\ ~ab[a2].won
        /\ ab[a1].x = ab[a2].x
        /\ xacts[ab[a1].x].abrtClosed = 1

\* C12: Finished and Aborted are terminal: once the end-time is set by a
\* normal stop no step changes the aborted flag or the end-time, an aborted
\* xaction stays aborted, and Finished() never turns false again.
C12_TerminalStates ==
    [][\A x \in Created :
         /\ (Finished(xacts[x]) /\ ~xacts[x].aborted) =>
                (xacts'[x].eutime = xacts[x].eutime /\ ~xacts'[x].aborted)
         /\ xacts[x].aborted => xacts'[x].aborted
         /\ Finished(xacts[x]) => Finished(xacts'[x])]_vars

C14_TimeoutSincePreviousCall ==
    dem.h.called => (dem.h.ret <=> (dem.h.wasPending = 0 /\ ~dem.h.wasRenewed))

\* C14 (amended): Timeout() returns true iff the pending counter is zero
\* and Renew() has not been called since the previous Timeout() call that
\* found the pending counter at zero.
C14_TimeoutSinceConsumed ==
    dem.h.called => (dem.h.ret <=> (dem.h.wasPending = 0 /\ ~dem.h.wasArmed))

\* a Timeout() that returns false with nothing pending and no Renew() since
\* the previous call, which found work pending
C14_Witness ==
    /\ dem.h.called
    /\ ~dem.h.ret
    /\ dem.h.wasPending = 0
    /\ ~dem.h.wasRenewed
    /\ dem.h.wasArmed

(***************************************************************************)
(* Claims about Add, Remove, Enable and Disable                            *)
(***************************************************************************)

\* this step is a call of op: the part of it up to its first store
MfsCall(op) == mfsRet' # mfsRet /\ mfsRet'.op = op

\* the disabled map as the call in progress, if any, publishes it
NewDisabled == IF mfsMu = Nil THEN disabled ELSE mfsMu.disabled

\* the call published nothing
NothingPublished ==
    /\ available' = available
    /\ disabled' = disabled
    /\ mfsMu' = Nil

\* m2 is m without the key k
Without(m2, m, k) ==
    /\ DOMAIN m2 = DOMAIN m \ {k}
    /\ \A x \in DOMAIN m2 : m2[x] = m[x]

\* the second and third store of updatePaths publish the map of the call
StoresFollow ==
    (mfsMu # Nil) => (IF mfsMu.pc = "xattrMpath" THEN disabled = mfsMu.disabled ELSE TRUE)

\* C15: an Add of a path that is registered, in the available or in the
\* disabled map, with the fsid check enabled or disabled, returns an error
\* and leaves both maps unchanged.
C15_AddRegisteredFails ==
    [][(MfsCall("Add") /\ Clean(mfsRet'.mpath) \in DOMAIN available \cup DOMAIN disabled) =>
          (mfsRet'.err # "" /\ NothingPublished)]_vars

\* C16: Remove looks the cleaned path up in the available map and then in
\* the disabled map; in neither, it fails and changes nothing; otherwise it
\* succeeds, the path leaves the map that was found to hold it and the other
\* map stays as it is, also when the path was the last available one.
C16_Remove ==
    /\ []StoresFollow
    /\ [][MfsCall("Remove") =>
            LET mpath == Clean(mfsRet'.mpath) IN
            IF mpath \in DOMAIN available
            THEN /\ mfsRet'.err = ""
                 /\ Without(available', available, mpath)
                 /\ NewDisabled' = disabled
            ELSE IF mpath \in DOMAIN disabled
            THEN /\ mfsRet'.err = ""
                 /\ available' = available
                 /\ Without(NewDisabled', disabled, mpath)
            ELSE /\ mfsRet'.err # ""
                 /\ NothingPublished
                 /\ fsIDs' = fsIDs]_vars

\* the last available mountpath is being removed while another is disabled
C16_Witness ==
    /\ mfsRet # Nil
    /\ mfsRet.op = "Remove"
    /\ mfsRet.err = ""
    /\ mfsMu # Nil
    /\ available = EmptyMap
    /\ NewDisabled = disabled
    /\ disabled # EmptyMap

\* C17 as stated: a Remove of a mountpath whose filesystem identifier is not
\* in the fsid registry fails, with the fsid check enabled or disabled.
C17_RemoveUnknownFsidFails ==
    [][(MfsCall("Remove") /\ Statfs(mfsRet'.mpath) \notin DOMAIN fsIDs) =>
          mfsRet'.err # ""]_vars

\* C17 (amended): while the fsid check is enabled, a Remove of a mountpath
\* whose filesystem identifier is not in the fsid registry fails and changes
\* nothing.
C17_RemoveUnknownFsidFailsChecked ==
    [][(MfsCall("Remove") /\ checkFsID /\ Statfs(mfsRet'.mpath) \notin DOMAIN fsIDs) =>
          (mfsRet'.err # "" /\ NothingPublished /\ fsIDs' = fsIDs)]_vars

\* a Remove of an existing directory of a file system that is not in the
\* registry was refused while another mountpath is registered
C17_Witness ==
    /\ mfsRet # Nil
    /\ mfsRet.op = "Remove"
    /\ mfsRet.err # ""
    /\ checkFsID
    /\ Stat(mfsRet.mpath)
    /\ Statfs(mfsRet.mpath) \notin DOMAIN fsIDs
    /\ available # EmptyMap

\* the step repeats the call that returned last
Repeats(op) ==
    /\ mfsRet # Nil
    /\ mfsRet.op = op
    /\ mfsMu = Nil
    /\ MfsCall(op)
    /\ Clean(mfsRet'.mpath) = Clean(mfsRet.mpath)

\* C18: Enable on a mountpath of the available map returns (false, true)
\* and publishes nothing, on one that is only in the disabled map moves it
\* to the available map and returns (true, true), on an unknown path returns
\* (false, false); Disable is the mirror image (a mountpath of the available
\* map is moved, one only in the disabled map gives (false, true)); a
\* repeated Enable or Disable changes nothing.
C18_EnableDisableIdempotent ==
    [][/\ MfsCall("Enable") =>
            LET mpath == Clean(mfsRet'.mpath) IN
            IF mpath \in DOMAIN available
            THEN ~mfsRet'.changed /\ mfsRet'.exists /\ NothingPublished
            ELSE IF mpath \in DOMAIN disabled
            THEN /\ mfsRet'.changed /\ mfsRet'.exists
                 /\ mpath \in DOMAIN available'
                 /\ Without(available, available', mpath)
                 /\ available'[mpath] = disabled[mpath]
                 /\ Without(NewDisabled', disabled, mpath)
            ELSE ~mfsRet'.changed /\ ~mfsRet'.exists /\ NothingPublished
       /\ MfsCall("Disable") =>
            LET mpath == Clean(mfsRet'.mpath) IN
            IF mpath \in DOMAIN available
            THEN /\ mfsRet'.changed /\ mfsRet'.exists
                 /\ Without(available', available, mpath)
                 /\ mpath \in DOMAIN NewDisabled'
                 /\ NewDisabled'[mpath] = available[mpath]
                 /\ \A x \in DOMAIN disabled \ {mpath} :
                        x \in DOMAIN NewDisabled' /\ NewDisabled'[x] = disabled[x]
                 /\ DOMAIN NewDisabled' = DOMAIN disabled \cup {mpath}
            ELSE IF mpath \in DOMAIN disabled
            THEN ~mfsRet'.changed /\ mfsRet'.exists /\ NothingPublished
            ELSE ~mfsRet'.changed /\ ~mfsRet'.exists /\ NothingPublished
       /\ (Repeats("Enable") \/ Repeats("Disable")) =>
            (NothingPublished /\ fsIDs' = fsIDs /\ iostats' = iostats)]_vars

\* a second Disable found the mountpath disabled
C18_Witness ==
    /\ mfsRet # Nil
    /\ mfsRet.op = "Disable"
    /\ ~mfsRet.changed
    /\ mfsRet.exists
    /\ mfsMu = Nil
    /\ Clean(mfsRet.mpath) \in DOMAIN disabled
    /\ Clean(mfsRet.mpath) \notin DOMAIN available
    /\ available # EmptyMap

(***************************************************************************)
(* Claims about MpathForXattr                                              *)
(***************************************************************************)

\* this step is a return of MpathForXattr
XattrReturns == xm'.calls # xm.calls

\* C19: a call of MpathForXattr that runs while at least one mountpath is
\* available and no Add, Remove, Enable or Disable is in progress, and finds
\* the cached choice, returns the available mountpath with the largest
\* PathDigest; so it never returns a mountpath that was removed or disabled
\* before the call, whatever ran concurrently with earlier calls.
C19_XattrIsLargestAvailable ==
    [][(XattrReturns /\ xm'.fast /\ mfsMu = Nil /\ available # EmptyMap) =>
          (xm'.err = "" /\ xm'.mpath = HrwMpath(available))]_vars

(***************************************************************************)
(* Claims about the fsprungroup                                            *)
(***************************************************************************)

EncodeChecks(r) == reqs[r].pc = "encode" /\ reqs'[r].pc # "encode"

\* the last control message the loop of xaction x processed is a ClearRequests
ClearedLast(x) == xacts[x].clearSeq > 0 /\ xacts[x].ctlDone = xacts[x].clearSeq

\* C21: once the loop of a Put xaction has processed a ClearRequests message
\* and no EnableRequests message after it, every Encode or Cleanup call on
\* that xaction is rejected: the request is not placed on the request
\* channel and, when it has an error channel, gets the EC-disabled error.
C21_RejectedWhenDisabled ==
    [][\A r \in Reqs :
          (EncodeChecks(r) /\ ClearedLast(reqs[r].x)) =>
              /\ reqs'[r].pc = "rejected"
              /\ reqs[r].hasErrCh => reqs'[r].err = "ECdisabled"
              /\ xacts'[reqs[r].x].ecCh = xacts[reqs[r].x].ecCh]_vars

\* a call on an xaction whose loop had returned from a ClearRequests message
\* was rejected with the error on its error channel
C21_Witness ==
    \E r \in Reqs :
        /\ reqs[r].pc = "rejected"
        /\ reqs[r].hasErrCh
        /\ reqs[r].err = "ECdisabled"
        /\ xacts[reqs[r].x].pc = "done"
        /\ xacts[reqs[r].x].ecCh = <<>>
        /\ ClearedLast(reqs[r].x)

(***************************************************************************)
(* Claims about the pending-writer registry                                *)
(***************************************************************************)

\* caller c registers its slice in this step
Registers(c) == rr[c].pc = "idle" /\ rr'[c].pc = "send"

\* readRemote of caller c returns in this step
ReadRemoteReturns(c) == rr[c].pc # "returned" /\ rr'[c].pc = "returned"

\* a call of readRemote for uname is between its regWriter and its return
InProgress(uname) == \E d \in Readers : rr[d].pc \in {"send", "wait"} /\ rr[d].uname = uname

\* C22: regWriter(uname, w) returns false and leaves the registry as it is
\* when uname is registered, and otherwise registers w under uname, leaves
\* the other registrations alone and returns true; the registry maps every
\* registered uname to one writer.
C22_RegWriter ==
    /\ [](DOMAIN slices \subseteq Unames /\ \A u \in DOMAIN slices : slices[u] \in Readers)
    /\ [][\A c \in Readers : Registers(c) =>
             LET uname == rr'[c].uname IN
             IF uname \in DOMAIN slices
             THEN ~rr'[c].regOk /\ slices' = slices
             ELSE /\ rr'[c].regOk
                  /\ DOMAIN slices' = DOMAIN slices \cup {uname}
                  /\ slices'[uname] = c
                  /\ \A u \in DOMAIN slices : slices'[u] = slices[u]]_vars

\* a second caller found the uname registered by the first, whose
\* registration is still there
C22_Witness ==
    \E c \in Readers :
        /\ rr[c].pc = "send"
        /\ ~rr[c].regOk
        /\ rr[c].uname \in DOMAIN slices
        /\ slices[rr[c].uname] # c

C24_SignalAfterDrain ==
    \A c \in Readers :
        (rsp[c].found /\ ~rsp[c].exists /\ rsp[c].signalled) => rsp[c].drained

\* C25: when writerReceive returns for a response with Exists=true (and no
\* other response is being written to the same slice record), the slice
\* record carries the checksum and the version of the object attributes of
\* the response.
C25_StampsCksumAndVersion ==
    [][\A c \in Readers :
          (/\ rsp[c].pc = "second"
           /\ rsp'[c].pc = "end"
           /\ rsp[c].exists
           /\ \A d \in Readers \ {c} : rsp[d].writer # rsp[c].writer) =>
              /\ sw'[rsp[c].writer].cksum = NewCksum(rsp[c].attrs.CksumType, rsp[c].attrs.CksumValue)
              /\ sw'[rsp[c].writer].version = rsp[c].attrs.Version]_vars

(***************************************************************************)
(* Claims about the persisted LOM                                          *)
(***************************************************************************)

\* a fresh LOM loads from the attribute in this step
LoadsFromFS == ld' # ld /\ ~ld'.cached

\* C26: a load of a fresh LOM from the attribute (LoadMetaFromFS, or Load
\* with the object not cached) that follows a Persist, with the attribute
\* not altered since, succeeds and yields the checksum, the version and the
\* copy-FQN list that were persisted last.
C26_PersistLoadRoundTrip ==
    [][(LoadsFromFS /\ ~xa.altered) => (ld'.err = "" /\ ld'.rec = xa.last)]_vars

\* after two Persists with different values a Load that followed an Uncache
\* has yielded the values of the second, two copy-FQNs included
C26_Witness ==
    /\ xa.n = MaxPersists
    /\ ~xa.altered
    /\ ld.how = "Load"
    /\ ~ld.cached
    /\ ld.err = ""
    /\ ld.rec = xa.last
    /\ Len(ld.rec.copyFQN) > 1
    /\ lc = ld.rec
    /\ pl = xa.last

\* C27: when the attribute was altered after the Persist, by a change of a
\* byte of its metadata checksum or by a payload that is not a record, a
\* load from the attribute returns an error and no record.
C27_AlteredAttributeFails ==
    [][(LoadsFromFS /\ xa.altered) => (ld'.err # "" /\ ld'.rec = Nil)]_vars

\* LoadMetaFromFS failed on an attribute whose checksum byte was changed
C27_Witness ==
    /\ xa.altered
    /\ xa.last # Nil
    /\ Len(xa.b) = Len(Marshal(xa.last))
    /\ xa.b # Marshal(xa.last)
    /\ ld.how = "LoadMetaFromFS"
    /\ ld.err = "CorruptedMeta"

(***************************************************************************)
(* Claims about the global config owner                                    *)
(***************************************************************************)

\* caller u is between its BeginUpdate and its CommitUpdate or DiscardUpdate
Updating(u) == scm[u].pc = "range"

\* C28: updates of the Config are serialized. No update begins while
\* another is between its BeginUpdate and its CommitUpdate or DiscardUpdate;
\* a committed Config was cloned from the Config that was current up to the
\* commit; Get() returns a Config that was stored by a commit (or loaded at
\* start); an update that ends in DiscardUpdate leaves the Config unchanged.
C28_UpdatesSerialized ==
    [][\A u \in Setters :
          /\ (~Updating(u) /\ Updating(u)') => (\A w \in Setters : ~Updating(w))
          /\ (Updating(u) /\ ~Updating(u)' /\ ~scm[u]'.err) => scm[u].base = gco.c
          /\ (Updating(u) /\ ~Updating(u)' /\ scm[u]'.err) => gco'.c = gco.c
          /\ got' # got => got' \in gco.stored]_vars

\* two callers have committed one after the other, each a different key,
\* and Get() returned the Config that holds both changes
C28_Witness ==
    /\ got = [LowWM |-> 2, HighWM |-> 3]
    /\ gco.c = got
    /\ \E u, w \in Setters : u # w /\ scm[u].base = [LowWM |-> 1, HighWM |-> 2]
                                    /\ scm[w].base # scm[u].base /\ scm[w].base # ZeroConfig
                                    /\ ~scm[u].err /\ ~scm[w].err

(***************************************************************************)
(* Claims about the Put xaction and the mountpaths                         *)
(***************************************************************************)

\* C30: the loop of a Put xaction never fails an assertion, neither in
\* dispatchRequest (a jogger for the mountpath of the request's LOM) nor in
\* removeMpath (the jogger of the mountpath being removed), whatever the
\* interleaving of request submissions with mountpath notifications.
C30_NoAssertionFails == \A x \in Created : xacts[x].pc # "panic"

\* Abort() was called on xaction x and has closed the abort channel
Aborted(x) == x \in Created /\ xacts[x].abrtClosed > 0

\* Abort() has closed the abort channel of xaction x and its loop is at the
\* select
AbortedRunning(x) == Aborted(x) /\ xacts[x].pc = "run"

\* C29 as stated: after Abort() on a running Put xaction its Run loop
\* eventually returns the "aborted" error, whatever is queued.
C29_AbortReturnsAborted ==
    \A x \in XIds : AbortedRunning(x) ~> (Aborted(x) /\ xacts[x].pc = "done" /\ xacts[x].retErr = "aborted")

\* C29 amended: after Abort() on a running Put xaction its Run loop
\* eventually ends, whatever is queued: it returns the "aborted" error, or
\* returns nil when the idle tick or a queued ActClearRequests is selected
\* before the abort case, or stops in the failed assertion of dispatchRequest.
C29_AbortEndsRun ==
    \A x \in XIds : AbortedRunning(x) ~> (Aborted(x) /\ xacts[x].pc \in {"done", "panic"})

\* Run has returned the "aborted" error with a request, a control message
\* and a mountpath notification still in its channels
C29_Witness ==
    \E x \in Created :
        /\ Aborted(x)
        /\ xacts[x].pc = "done"
        /\ xacts[x].retErr = "aborted"
        /\ xacts[x].ecCh # <<>>
        /\ xacts[x].controlCh # <<>>
        /\ xacts[x].mpathReqCh # <<>>

(***************************************************************************)
(* Claims about the two maps of the mountpath manager                      *)
(***************************************************************************)

\* C40: once every call of Add, Remove, Enable and Disable has returned, no
\* path is both in the available map and in the disabled map, with the
\* fsid check enabled or disabled.
C40_NeverInBothMaps ==
    mfsMu = Nil => DOMAIN available \cap DOMAIN disabled = {}

(***************************************************************************)
(* Claims about what a returning Run leaves behind                         *)
(***************************************************************************)

\* C33: whenever Run has returned (idle timeout, ClearRequests or Abort),
\* the joggers of the xaction have been told to stop and its idle ticker
\* has been stopped.
C33_ReturnStopsJoggersAndTicker ==
    \A x \in Created :
        xacts[x].pc = "done" => (xacts[x].jogStopped /\ xacts[x].tickerStopped)

(***************************************************************************)
(* Claims about whose registration a readRemote call removes               *)
(***************************************************************************)

\* C38: a call of readRemote removes only the writer it registered itself:
\* while a call that registered its writer is in flight, its uname stays
\* registered with its writer, whatever other calls with the same uname do.
C38_OwnRegistrationStays ==
    \A c \in Readers :
        (rr[c].pc \in {"send", "wait"} /\ rr[c].regOk) =>
            /\ rr[c].uname \in DOMAIN slices
            /\ slices[rr[c].uname] = c

(***************************************************************************)
(* Claims about the notifications of the fsprungroup                       *)
(***************************************************************************)

\* the number of times runner x was notified by the call
TimesTold(told, x) == Cardinality({i \in DOMAIN told : told[i] = x})

\* the call of caller c has returned
GroupReturned(c) == grp[c].pc = "idle" /\ grp[c].op # "none" /\ mfsMu = Nil

\* the maps of the mountpath manager are not what they were when the call
\* of caller c began
MapsChanged(c) == grp[c].was # <<DOMAIN available, DOMAIN disabled>>

\* C32: when a call of enableMountpath, disableMountpath, addMountpath or
\* removeMountpath has returned, every registered runner was notified
\* exactly once if the maps of the mountpath manager changed, and no runner
\* was notified if they did not.
C32_NotifiedOnceIffChanged ==
    \A x \in Runners :
        (GroupReturned(1) /\ x \in grp[1].ran) =>
            TimesTold(grp[1].told, x) = IF MapsChanged(1) THEN 1 ELSE 0

\* no call of the fsprungroup is in progress
GroupQuiet == mfsMu = Nil /\ \A c \in Callers : grp[c].pc = "idle"

\* C39: once every one of the concurrent addMountpath, removeMountpath,
\* enableMountpath and disableMountpath calls has returned, the target is
\* registered in the cluster iff at least one mountpath is available.
C39_RegisteredIffAvailable ==
    GroupQuiet => (tgt.registered <=> available # EmptyMap)

(***************************************************************************)
(* Claims about a Put xaction stopped by the coordinator                   *)
(***************************************************************************)

\* StopPut has stopped xaction x (it is finished, and not by Abort) and its
\* loop is at the select
StoppedRunning(x) ==
    x \in Created /\ Finished(xacts[x]) /\ ~xacts[x].aborted /\ xacts[x].pc = "run"

\* C34: after the coordinator has stopped a Put xaction with StopPut, the
\* Run loop of the xaction eventually returns.
C34_StopPutEndsRun ==
    \A x \in XIds : StoppedRunning(x) ~> (x \in Created /\ xacts[x].pc \in {"done", "panic"})

(***************************************************************************)
(* Claims about requests left in the request channel                       *)
(***************************************************************************)

\* C35: every request that Encode or Cleanup has placed on the request
\* channel of a Put xaction is eventually handed to a jogger or failed:
\* none stays in the channel of a terminated xaction forever.
C35_QueuedIsHandled ==
    \A r \in Reqs : (reqs[r].pc = "queued") ~> (reqs[r].pc # "queued")

(***************************************************************************)
(* Claims about BucketsMDChanged                                           *)
(***************************************************************************)

\* the control messages that the versions of seen call for, in their order:
\* one for every version that changed EC.Enabled of the bucket
RECURSIVE MessagesFor(_)
MessagesFor(seen) ==
    IF Len(seen) < 2 THEN <<>>
    ELSE LET n == Len(seen)
             before == MessagesFor(SubSeq(seen, 1, n - 1))
         IN  IF seen[n] = seen[n - 1] THEN before
             ELSE Append(before, IF seen[n] THEN ActEnableRequests ELSE ActClearRequests)

\* the control messages sent so far, the one being sent included
MessagesCalled == IF ctl.pc = "idle" THEN ctl.hist ELSE Append(ctl.hist, ctl.pc)

\* every call of BucketsMDChanged has been fully processed: the newest
\* version is cached, its message is sent, and no loop that still runs has a
\* control message to take or a drain to finish
MDChangesProcessed ==
    /\ ctl.pc = "idle"
    /\ ctl.bckMD = ctl.bmd
    /\ \A x \in Created :
          \/ xacts[x].pc \in {"done", "panic"}
          \/ xacts[x].pc = "run" /\ xacts[x].controlCh = <<>>

\* an Encode or Cleanup request for the bucket would be accepted now:
\* EncodeObject finds EC enabled in the bucket's properties, and the
\* xaction restoreBckPutXact returns does not reject
EncodeAccepted ==
    /\ ctl.bmd.Enabled
    /\ ecRequestsEnabled(restoreBckXact(IF put = 0 THEN Nil ELSE xacts[put]))

\* a call of BucketsMDChanged that found a version not newer than the cached
\* one
StaleMDCall ==
    ctl'.nmd = ctl.nmd + 1 /\ ctl.bmd.Version <= ctl.bckMD.Version

\* C31: the control messages are sent in the order in which the versions of
\* the bucket metadata arrived, one per version that changed EC.Enabled of
\* the bucket; once every BucketsMDChanged call has been fully processed,
\* requests for the bucket are accepted iff EC is enabled for it in the
\* newest bucket metadata; a BucketsMDChanged call on a version that is not
\* newer than the cached one sends no control message and changes nothing.
C31_MDChangesInOrder ==
    /\ [](MessagesCalled = MessagesFor(ctl.seen))
    /\ [](MDChangesProcessed => (EncodeAccepted <=> ctl.bmd.Enabled))
    /\ [][StaleMDCall => (ctl' = [ctl EXCEPT !.nmd = @ + 1] /\ xacts' = xacts)]_vars

\* EC was disabled and enabled again; the first xaction returned on the
\* disable with the enable message left in its channel, and a request
\* submitted after both was accepted by the renewed xaction
C31_Witness ==
    /\ MDChangesProcessed
    /\ ctl.hist = <<ActClearRequests, ActEnableRequests>>
    /\ ctl.bmd.Enabled
    /\ EncodeAccepted
    /\ Len(xacts) = 2
    /\ xacts[1].pc = "done"
    /\ xacts[1].controlCh # <<>>
    /\ reqs[1].pc \in {"queued", "jogger"}
    /\ reqs[1].x = 2
    /\ reqs[1].sub = 2

(***************************************************************************)
(* Claims about the manager's mutex and its map of BckXacts                *)
(***************************************************************************)

\* goroutine g is in a call of RLock or Lock that cannot return
LockBlocked(g) ==
    \/ mgr.gor[g].pc = "rlock" /\ ~RLockReady(mgr.mtx)
    \/ mgr.gor[g].pc = "lock" /\ ~LockReady(mgr.mtx)

\* the goroutines that are in a call of the manager
InCall == {g \in Gors : mgr.gor[g].pc \notin {"idle", "done"}}

\* C36: ListenSmapChanged, which takes the read lock again in getBckXacts
\* while it holds it, and BucketsMDChanged, which takes the write lock,
\* never deadlock: while goroutines are in a call, one of them can go on.
C36_NoDeadlock ==
    InCall # {} => \E g \in InCall : ~LockBlocked(g)

\* C37: for each bucket all callers of getBckXacts, concurrent ones
\* included, get the same BckXacts record.
C37_OneRecordPerBucket ==
    \A g, h \in Gors : \A p \in mgr.gor[g].rets, q \in mgr.gor[h].rets :
        p[1] = q[1] => p[2] = q[2]

====
